---------------------------- MODULE Spec2Model ----------------------------
(***************************************************************************)
(* A state-machine model of emby-analytics (server/tasks.py and            *)
(* server/routers/{stats,now,admin}.py):                                   *)
(*   - the watch-time queries of routers/stats.py over the play_event     *)
(*     ledger (SpecRecon),                                                 *)
(*   - the session poller collector_loop of tasks.py with its dedup cache  *)
(*     (SpecPoll),                                                         *)
(*   - the now-playing fan-out of routers/now.py (SpecPub),                *)
(*   - the catalog refresh job of routers/admin.py (SpecCat).              *)
(* Times are whole seconds (datetime('now') has second resolution),        *)
(* positions are milliseconds, upstream positions are ticks                *)
(* (10,000 ticks = 1 ms).                                                  *)
(***************************************************************************)
EXTENDS Integers, Sequences, FiniteSets, TLC

VARIABLES
    play_event,      \* the ledger: sequence of rows, the index is the row id
    resp,            \* the answer of the stats query in flight
    pc,              \* collector_loop: where the poller stands
    raw_sessions,    \* collector_loop: the session list of this tick
    idx,             \* collector_loop: the session the loop is at
    last_positions,  \* collector_loop: the dedup cache
    now,             \* the last reading of the wall clock, in seconds
    tick,            \* history of this tick: fetched, published, written
    last_snapshot,   \* history: the snapshot of this tick's publish_now call
    subscribers,     \* now.py: the registered queues
    queue,           \* now.py: the content of each queue
    dropped,         \* history: queues the last publish_now found full
    stream,          \* now.py: where each now_stream generator stands
    pub_hist,        \* history: the broadcasts by number, per subscriber
    upstream,        \* the number of items the media server holds
    media,           \* the content of the first items of the media server
    library_item,    \* the catalog: the ids of its rows
    library_cols,    \* the catalog: the columns of the rows of those items
    refresh_state,   \* admin.py: _refresh_state
    worker,          \* admin.py: the _refresh_worker tasks
    reply,           \* the answer to the last admin request
    cat_hist,        \* history of the catalog jobs, where one is kept
    upstream_users,  \* the user list of the media server
    emby_user,       \* the user directory: the ids of its rows
    sync,            \* tasks.py: the sync_users_from_emby call in progress
    sync_task,       \* admin.py: the tasks of POST /admin/users/sync
    played,          \* the played items of each user on the media server
    lifetime_watch,  \* the committed lifetime_watch table: user id -> total_ms
    bf,              \* tasks.py: the backfill_lifetime_watch call in progress
    window           \* the window parameter of the stats query in flight

reconVars == <<resp>>
pollVars == <<pc, raw_sessions, idx, last_positions, now, tick, last_snapshot>>
pubVars == <<subscribers, queue, dropped, stream, pub_hist>>
catVars == <<upstream, media, library_item, library_cols, refresh_state,
             worker, reply, cat_hist>>
dirVars == <<upstream_users, emby_user, sync, sync_task>>
lifeVars == <<played, lifetime_watch, bf>>
jobVars == <<dirVars, lifeVars, window>>
vars == <<play_event, resp, pc, raw_sessions, idx, last_positions, now, tick,
          last_snapshot, subscribers, queue, dropped, stream, pub_hist, upstream,
          media, library_item, library_cols, refresh_state, worker, reply,
          cat_hist, upstream_users, emby_user, sync, sync_task, played,
          lifetime_watch, bf, window>>

(***************************************************************************)
(* Generic helpers                                                         *)
(***************************************************************************)
Min2(a, b) == IF a <= b THEN a ELSE b
Max2(a, b) == IF a >= b THEN a ELSE b

\* SQL NULL / Python None: a value is <<>> (NULL) or <<v>>.
NULL == <<>>
Some(v) == <<v>>

(***************************************************************************)
(* Bounded input domains                                                   *)
(***************************************************************************)
Users == {"u1", "u2"}
Items == {"i1"}
\* Seconds counted from 23:59:58 UTC, so that midnight falls at t = 2.
Times == {0, 2, 4, 10}
Positions == {0, 500, 2000, 9000}
MaxRows == 3

Row == [uid : Users, iid : Items, ts : Times, pos : Positions]

\* No stats query is in flight.
NoResp == [op |-> "none", cutoff |-> NULL, d |-> {}, out |-> <<>>]

(***************************************************************************)
(* The catalog refresh: routers/admin.py                                   *)
(***************************************************************************)
MaxWorkers == 2
WorkerIds == 1..MaxWorkers

\* page, total_imported, per_page = 0, 0, 200
per_page == 200

\* The number of items upstream: none, one, a full page, a page and one.
UpstreamSizes == {0, 1, 200, 201}

\* _refresh_state = {"running": False, "page": 0, "imported": 0, ...}
InitRefreshState ==
    [running |-> FALSE, page |-> 0, imported |-> 0, total |-> 0,
     error |-> NULL]

NoWorker == [pc |-> "idle", page |-> 0, total_imported |-> 0]

NoReply == [started |-> FALSE, full |-> FALSE, progress |-> NULL]

\* One entry of an item's MediaStreams.  Height is NULL when the key is
\* missing, <<n>> for the integer n and <<n, "float">> for a value that is not
\* an int.
Stream(t, h, c) == [Type |-> t, Height |-> h, Codec |-> c]

\* One item of GET /emby/Items: its Type, its own MediaStreams and the
\* MediaStreams of each of its MediaSources.
MediaItem(t, streams, sources) ==
    [Type |-> t, MediaStreams |-> streams, MediaSources |-> sources]

\* An item whose content the model does not describe: a movie that lists no
\* stream.
PlainItem == MediaItem(Some("Movie"), <<>>, <<>>)

\* The content of upstream item i.
UpstreamItem(i) == IF i \in DOMAIN media THEN media[i] ELSE PlainItem

\* str.lower() on the stream types and codecs the model uses
LowerWord(s) ==
    CASE s = "Video" -> "video" [] s = "H264" -> "h264" [] s = "HEVC" -> "hevc"
      [] OTHER -> s

\* (st.get("Type") or "").lower() == "video"
IsVideo(st) == st.Type # NULL /\ LowerWord(st.Type[1]) = "video"

\* {"h": st.get("Height"), "codec": (st.get("Codec") or "").lower() or None}
Candidate(st) ==
    [h     |-> st.Height,
     codec |-> IF st.Codec = NULL \/ st.Codec = Some("") THEN NULL
               ELSE Some(LowerWord(st.Codec[1]))]

RECURSIVE VideoCandidates(_)
VideoCandidates(streams) ==
    IF streams = <<>> THEN <<>>
    ELSE (IF IsVideo(Head(streams)) THEN <<Candidate(Head(streams))>> ELSE <<>>)
         \o VideoCandidates(Tail(streams))

RECURSIVE SourceCandidates(_)
SourceCandidates(sources) ==
    IF sources = <<>> THEN <<>>
    ELSE VideoCandidates(Head(sources)) \o SourceCandidates(Tail(sources))

\* An importer that looks at the item's own stream list only.
Candidates_OwnStreamsOnly(item) == VideoCandidates(item.MediaStreams)

\* candidates: the video streams of the item, then those of its sources
Candidates(item) ==
    VideoCandidates(item.MediaStreams) \o SourceCandidates(item.MediaSources)

\* isinstance(c.get("h"), int) and c["h"] > 0
Usable(c) == c.h # NULL /\ Len(c.h) = 1 /\ c.h[1] > 0

\* max(..., key=lambda c: c["h"], default=None): the first of the usable
\* candidates of greatest height, NULL when there is none.
Best(cands) ==
    LET ok == {k \in DOMAIN cands : Usable(cands[k])}
    IN  IF ok = {} THEN NULL
        ELSE Some(cands[CHOOSE k \in ok :
                           \A j \in ok : \/ cands[j].h[1] < cands[k].h[1]
                                         \/ (cands[j].h[1] = cands[k].h[1]
                                             /\ k <= j)])

\* The columns written for an item: type, video_codec, video_height (name
\* and added_at are copies of Name and DateCreated and are left out).
RowOf(item) ==
    LET best == Best(Candidates(item))
    IN  [type         |-> item.Type,
         video_codec  |-> IF best = NULL THEN NULL ELSE best[1].codec,
         video_height |-> IF best = NULL THEN NULL ELSE Some(best[1].h[1])]

\* The items whose content, and whose columns in the catalog, are described.
MaxMedia == 2
Described == 1..MaxMedia

\* insert or replace into library_item ... for the items of a page
ColsPut(cols, ids) ==
    [i \in (DOMAIN cols) \cup (ids \cap Described) |->
        IF i \in ids THEN RowOf(UpstreamItem(i)) ELSE cols[i]]

\* History of the catalog jobs, kept in the specifications that start with
\* one (NULL elsewhere).  kind: "idle" when no job is unfinished, "full" when
\* the only job is a full refresh that wiped with no job unfinished, "plain"
\* when no wipe fell into an unfinished job, else "mixed".  done: the catalog
\* as the last successful job left it, NULL after a wipe or a change of the
\* media server.  runs: the successful jobs since done was last NULL, up to 2.
\* gone: the wipe of the full refresh removed an item that is gone upstream.
NoHistory == NULL
InitHistory ==
    Some([kind |-> "idle", done |-> NULL, runs |-> 0, gone |-> FALSE])

\* The task of worker w exists.
HasJob(w) == worker[w].pc # "idle"

\* A request that starts a job, after wiping the catalog or not.
HistRequest(wipes) ==
    IF cat_hist = NULL THEN NULL
    ELSE LET h == cat_hist[1]
             busy == \E w \in WorkerIds : HasJob(w)
         IN  Some([kind |-> IF wipes
                            THEN (IF busy THEN "mixed" ELSE "full")
                            ELSE (IF h.kind = "mixed" THEN "mixed" ELSE "plain"),
                   done |-> IF wipes THEN NULL ELSE h.done,
                   runs |-> IF wipes THEN 0 ELSE h.runs,
                   gone |-> IF wipes THEN library_item \ (1..upstream) # {}
                            ELSE h.gone])

\* A job reaches the end of its pages.
HistComplete ==
    IF cat_hist = NULL THEN NULL
    ELSE LET h == cat_hist[1]
         IN  IF h.kind = "mixed" THEN cat_hist
             ELSE Some([h EXCEPT !.done = Some(<<library_item, library_cols>>),
                                 !.runs = Min2(h.runs + 1, 2)])

\* The task of worker w is over.
HistFinish(w) ==
    IF cat_hist = NULL THEN NULL
    ELSE IF \E x \in WorkerIds \ {w} : HasJob(x) THEN cat_hist
    ELSE Some([cat_hist[1] EXCEPT !.kind = "idle"])

InitCatalog ==
    /\ media = <<>>
    /\ library_item = {}
    /\ library_cols = <<>>
    /\ refresh_state = InitRefreshState
    /\ worker = [w \in WorkerIds |-> NoWorker]
    /\ reply = NoReply
    /\ cat_hist = NoHistory

\* asyncio.create_task(_refresh_worker(_refresh_state)): the task is queued
\* and runs its first step at a later turn of the event loop.
CreateTask ==
    LET w == CHOOSE x \in WorkerIds :
                /\ worker[x].pc = "idle"
                /\ \A y \in WorkerIds : worker[y].pc = "idle" => x <= y
    IN  [worker EXCEPT ![w] = [NoWorker EXCEPT !.pc = "created"]]

HasIdle == \E w \in WorkerIds : worker[w].pc = "idle"

\* POST /admin/refresh
admin_refresh ==
    /\ IF refresh_state.running
       THEN /\ reply' = [started |-> FALSE, full |-> FALSE,
                         progress |-> Some([running |-> TRUE,
                                            imported |-> refresh_state.imported,
                                            total |-> refresh_state.total,
                                            page |-> refresh_state.page])]
            /\ UNCHANGED <<worker, cat_hist>>
       ELSE /\ HasIdle
            /\ worker' = CreateTask
            /\ reply' = [started |-> TRUE, full |-> FALSE, progress |-> NULL]
            /\ cat_hist' = HistRequest(FALSE)
    /\ UNCHANGED <<upstream, media, library_item, library_cols, refresh_state,
                   play_event, resp, pollVars, pubVars, jobVars>>

\* Mutant: the full refresh wipes the ledger as well.
admin_refresh_full_WipesLedger ==
    /\ HasIdle
    /\ library_item' = {}
    /\ library_cols' = <<>>
    /\ play_event' = <<>>
    /\ worker' = CreateTask
    /\ reply' = [started |-> TRUE, full |-> TRUE, progress |-> NULL]
    /\ cat_hist' = HistRequest(TRUE)
    /\ UNCHANGED <<upstream, media, refresh_state, resp, pollVars, pubVars,
                   jobVars>>

\* Mutant: the full refresh starts the import without wiping.
admin_refresh_full_NoWipe ==
    /\ HasIdle
    /\ worker' = CreateTask
    /\ reply' = [started |-> TRUE, full |-> TRUE, progress |-> NULL]
    /\ cat_hist' = HistRequest(TRUE)
    /\ UNCHANGED <<upstream, media, library_item, library_cols, refresh_state,
                   play_event, resp, pollVars, pubVars, jobVars>>

\* POST /admin/refresh/full: delete from library_item, commit, create_task
admin_refresh_full ==
    /\ HasIdle
    /\ library_item' = {}
    /\ library_cols' = <<>>
    /\ worker' = CreateTask
    /\ reply' = [started |-> TRUE, full |-> TRUE, progress |-> NULL]
    /\ cat_hist' = HistRequest(TRUE)
    /\ UNCHANGED <<upstream, media, refresh_state, play_event, resp, pollVars,
                   pubVars, jobVars>>

\* _refresh_worker, up to "conn = await db()": state.update({...})
W_Start(w) ==
    /\ worker[w].pc = "created"
    /\ refresh_state' = [running |-> TRUE, page |-> 0, imported |-> 0,
                         total |-> 0, error |-> NULL]
    /\ worker' = [worker EXCEPT ![w].pc = "open"]
    /\ UNCHANGED <<upstream, media, library_item, library_cols, reply,
                   cat_hist, play_event, resp, pollVars, pubVars, jobVars>>

\* db() returns; page, total_imported = 0, 0; state["page"] = page; the GET
\* of the page is sent
W_Open(w) ==
    /\ worker[w].pc = "open"
    /\ worker' = [worker EXCEPT ![w] =
                     [pc |-> "get", page |-> 0, total_imported |-> 0]]
    /\ refresh_state' = [refresh_state EXCEPT !.page = 0]
    /\ UNCHANGED <<upstream, media, library_item, library_cols, reply,
                   cat_hist, play_event, resp, pollVars, pubVars, jobVars>>

\* db() raises: the call stands before the try, so the task ends there
W_OpenFail(w) ==
    /\ worker[w].pc = "open"
    /\ worker' = [worker EXCEPT ![w] = NoWorker]
    /\ cat_hist' = HistFinish(w)
    /\ UNCHANGED <<upstream, media, library_item, library_cols, refresh_state,
                   reply, play_event, resp, pollVars, pubVars, jobVars>>

\* The ids upstream lists for StartIndex = page * per_page, Limit = per_page.
PageItems(page) ==
    {i \in 1..upstream : page * per_page < i /\ i <= (page + 1) * per_page}

\* if not state.get("total"): state["total"] = int(TotalRecordCount or 0)
CaptureTotal(state) ==
    IF state.total = 0 THEN [state EXCEPT !.total = upstream] ELSE state

\* Mutant: an empty page does not break the loop; the page is requested
\* again.
W_Page_NoBreak(w) ==
    /\ worker[w].pc = "get"
    /\ refresh_state' = CaptureTotal(refresh_state)
    /\ IF PageItems(worker[w].page) = {}
       THEN UNCHANGED worker
       ELSE worker' = [worker EXCEPT ![w].pc = "store"]
    /\ UNCHANGED <<upstream, media, library_item, library_cols, reply,
                   cat_hist, play_event, resp, pollVars, pubVars, jobVars>>

\* The page arrives: total is captured; an empty page breaks the loop and
\* state["running"] = False, else the items are written.
W_Page(w) ==
    /\ worker[w].pc = "get"
    /\ IF PageItems(worker[w].page) = {}
       THEN /\ refresh_state' =
                   [CaptureTotal(refresh_state) EXCEPT !.running = FALSE]
            /\ worker' = [worker EXCEPT ![w].pc = "close"]
            /\ cat_hist' = HistComplete
       ELSE /\ refresh_state' = CaptureTotal(refresh_state)
            /\ worker' = [worker EXCEPT ![w].pc = "store"]
            /\ UNCHANGED cat_hist
    /\ UNCHANGED <<upstream, media, library_item, library_cols, reply,
                   play_event, resp, pollVars, pubVars, jobVars>>

\* except Exception as e: state.update({"running": False, "error": str(e)})
Failed(state, e) == [state EXCEPT !.running = FALSE, !.error = Some(e)]

\* the GET raises or raise_for_status() does
W_PageFail(w) ==
    /\ worker[w].pc = "get"
    /\ refresh_state' = Failed(refresh_state, "http")
    /\ worker' = [worker EXCEPT ![w].pc = "close"]
    /\ UNCHANGED <<upstream, media, library_item, library_cols, reply,
                   cat_hist, play_event, resp, pollVars, pubVars, jobVars>>

\* Mutant: the page takes the place of the whole catalog.
W_Store_ReplacesCatalog(w) ==
    /\ worker[w].pc = "store"
    /\ library_item' = PageItems(worker[w].page)
    /\ library_cols' = ColsPut(<<>>, PageItems(worker[w].page))
    /\ LET n == worker[w].total_imported
                   + Cardinality(PageItems(worker[w].page))
       IN  /\ worker' = [worker EXCEPT ![w] =
                            [pc |-> "get", page |-> worker[w].page + 1,
                             total_imported |-> n]]
           /\ refresh_state' = [refresh_state EXCEPT
                                   !.imported = n, !.page = worker[w].page + 1]
    /\ UNCHANGED <<upstream, media, reply, cat_hist, play_event, resp,
                   pollVars, pubVars, jobVars>>

\* insert or replace each item of the page; commit; total_imported +=
\* len(items); state["imported"] = total_imported; page += 1; and, at the top
\* of the loop, state["page"] = page and the next GET is sent
W_Store(w) ==
    /\ worker[w].pc = "store"
    /\ library_item' = library_item \cup PageItems(worker[w].page)
    /\ library_cols' = ColsPut(library_cols, PageItems(worker[w].page))
    /\ LET n == worker[w].total_imported
                   + Cardinality(PageItems(worker[w].page))
       IN  /\ worker' = [worker EXCEPT ![w] =
                            [pc |-> "get", page |-> worker[w].page + 1,
                             total_imported |-> n]]
           /\ refresh_state' = [refresh_state EXCEPT
                                   !.imported = n, !.page = worker[w].page + 1]
    /\ UNCHANGED <<upstream, media, reply, cat_hist, play_event, resp,
                   pollVars, pubVars, jobVars>>

\* an insert or the commit raises: the page is not committed
W_StoreFail(w) ==
    /\ worker[w].pc = "store"
    /\ refresh_state' = Failed(refresh_state, "db")
    /\ worker' = [worker EXCEPT ![w].pc = "close"]
    /\ UNCHANGED <<upstream, media, library_item, library_cols, reply,
                   cat_hist, play_event, resp, pollVars, pubVars, jobVars>>

\* finally: await conn.close(); the task is over
W_Close(w) ==
    /\ worker[w].pc = "close"
    /\ worker' = [worker EXCEPT ![w] = NoWorker]
    /\ cat_hist' = HistFinish(w)
    /\ UNCHANGED <<upstream, media, library_item, library_cols, refresh_state,
                   reply, play_event, resp, pollVars, pubVars, jobVars>>

(***************************************************************************)
(* The user directory sync: sync_users_from_emby of tasks.py               *)
(***************************************************************************)
\* One entry of GET /Users.
UserEntry(id) == [Id |-> id]

\* What GET /Users may list; the third entry of the last list has no Id.
UserLists ==
    {<<>>,
     <<UserEntry(Some("u1"))>>,
     <<UserEntry(Some("u2"))>>,
     <<UserEntry(Some("u1")), UserEntry(Some("u2"))>>,
     <<UserEntry(Some("u1")), UserEntry(NULL)>>}

NoSync == [pc |-> "idle", users |-> <<>>]

\* The tasks of POST /admin/users/sync that the model follows.
SyncTaskIds == {1, 2}

InitDirectory ==
    /\ upstream_users = <<>>
    /\ emby_user = {}
    /\ sync = NoSync
    /\ sync_task = [t \in SyncTaskIds |-> NoSync]

\* The media server gains or loses users.
UpstreamUsersChange ==
    /\ \E l \in UserLists \ {upstream_users} : upstream_users' = l
    /\ UNCHANGED <<emby_user, sync, sync_task, lifeVars, window, play_event,
                   resp, pollVars, pubVars, catVars>>

\* sync_users_from_emby is called (users_sync_loop, POST /admin/users/sync):
\* the GET of /Users is sent
S_Start ==
    /\ sync.pc = "idle"
    /\ sync' = [sync EXCEPT !.pc = "get"]
    /\ UNCHANGED <<upstream_users, emby_user, sync_task, lifeVars, window,
                   play_event, resp, pollVars, pubVars, catVars>>

\* resp.raise_for_status(); users = resp.json(); conn = await db()
S_Users ==
    /\ sync.pc = "get"
    /\ sync' = [pc |-> "write", users |-> upstream_users]
    /\ UNCHANGED <<upstream_users, emby_user, sync_task, lifeVars, window,
                   play_event, resp, pollVars, pubVars, catVars>>

\* the GET raises or the status is not 2xx
S_UsersFail ==
    /\ sync.pc = "get"
    /\ sync' = NoSync
    /\ UNCHANGED <<upstream_users, emby_user, sync_task, lifeVars, window,
                   play_event, resp, pollVars, pubVars, catVars>>

\* The ids of the entries of a user list that have one.
UserIds(users) ==
    {users[k].Id[1] : k \in {j \in 1..Len(users) : users[j].Id # NULL}}

\* for user in users: INSERT OR REPLACE INTO emby_user ...; commit; close.
\* user["Id"] of an entry without Id raises, and nothing is committed.
S_Write ==
    /\ sync.pc = "write"
    /\ IF \A k \in 1..Len(sync.users) : sync.users[k].Id # NULL
       THEN emby_user' = emby_user \cup UserIds(sync.users)
       ELSE emby_user' = emby_user
    /\ sync' = NoSync
    /\ UNCHANGED <<upstream_users, sync_task, lifeVars, window, play_event,
                   resp, pollVars, pubVars, catVars>>

\* db(), an insert or the commit raises: nothing is committed
S_WriteFail ==
    /\ sync.pc = "write"
    /\ sync' = NoSync
    /\ UNCHANGED <<upstream_users, emby_user, sync_task, lifeVars, window,
                   play_event, resp, pollVars, pubVars, catVars>>

\* POST /admin/users/sync: asyncio.create_task(sync_users_from_emby()) and
\* {"started": True}, whatever else is running.  The task sends its GET of
\* /Users at its first turn.
admin_users_sync ==
    /\ \E t \in SyncTaskIds :
          /\ sync_task[t].pc = "idle"
          /\ \A x \in SyncTaskIds : x < t => sync_task[x].pc # "idle"
          /\ sync_task' = [sync_task EXCEPT ![t] = [NoSync EXCEPT !.pc = "get"]]
    /\ UNCHANGED <<upstream_users, emby_user, sync, lifeVars, window,
                   play_event, resp, pollVars, pubVars, catVars>>

\* The steps of sync_users_from_emby in the task t of a request.
T_Users(t) ==
    /\ sync_task[t].pc = "get"
    /\ sync_task' = [sync_task EXCEPT
                        ![t] = [pc |-> "write", users |-> upstream_users]]
    /\ UNCHANGED <<upstream_users, emby_user, sync, lifeVars, window,
                   play_event, resp, pollVars, pubVars, catVars>>

T_UsersFail(t) ==
    /\ sync_task[t].pc = "get"
    /\ sync_task' = [sync_task EXCEPT ![t] = NoSync]
    /\ UNCHANGED <<upstream_users, emby_user, sync, lifeVars, window,
                   play_event, resp, pollVars, pubVars, catVars>>

T_Write(t) ==
    /\ sync_task[t].pc = "write"
    /\ IF \A k \in 1..Len(sync_task[t].users) : sync_task[t].users[k].Id # NULL
       THEN emby_user' = emby_user \cup UserIds(sync_task[t].users)
       ELSE emby_user' = emby_user
    /\ sync_task' = [sync_task EXCEPT ![t] = NoSync]
    /\ UNCHANGED <<upstream_users, sync, lifeVars, window, play_event, resp,
                   pollVars, pubVars, catVars>>

T_WriteFail(t) ==
    /\ sync_task[t].pc = "write"
    /\ sync_task' = [sync_task EXCEPT ![t] = NoSync]
    /\ UNCHANGED <<upstream_users, emby_user, sync, lifeVars, window,
                   play_event, resp, pollVars, pubVars, catVars>>

(***************************************************************************)
(* The lifetime backfill: backfill_lifetime_watch of tasks.py              *)
(***************************************************************************)
\* page = 200
backfill_page == 200

\* One played item of GET /Users/{uid}/Items.
PlayedItem(ticks, plays) == [RunTimeTicks |-> ticks, PlayCount |-> plays]

\* The items a library may hold: run times absent, 2.5 ms and 3 ms; play
\* counts absent, 0, -1 and 2.
ItemKinds ==
    {PlayedItem(t, c) : t \in {NULL, Some(25000), Some(30000)},
                        c \in {NULL, Some(0), Some(0 - 1), Some(2)}}

\* A library of played items: filler items of 1 ms played once, then tail.
Library(filler, tail) == [filler |-> filler, tail |-> tail]

Libraries ==
    {Library(0, <<>>)}
    \cup {Library(f, <<a>>) : f \in {0, backfill_page}, a \in ItemKinds}

\* The item list of a library.
PlayedSeq(lib) ==
    [k \in 1..lib.filler |-> PlayedItem(Some(10000), Some(1))] \o lib.tail

\* The answer to StartIndex = start, Limit = page.
PlayedPage(lib, start) ==
    LET s == PlayedSeq(lib)
    IN  SubSeq(s, start + 1, Min2(Len(s), start + backfill_page))

\* ticks = int(RunTimeTicks or 0); plays = int(PlayCount or 1);
\* if ticks > 0 and plays > 0: total_ms += (ticks // 10_000) * plays
ItemMs(it) ==
    LET ticks == IF it.RunTimeTicks = NULL THEN 0 ELSE it.RunTimeTicks[1]
        plays == IF it.PlayCount = NULL \/ it.PlayCount = Some(0) THEN 1
                 ELSE it.PlayCount[1]
    IN  IF ticks > 0 /\ plays > 0 THEN (ticks \div 10000) * plays ELSE 0

\* for it in items: ... total_ms += ...   (items lo..hi of the page, summed
\* by halves)
RECURSIVE RangeMs(_, _, _)
RangeMs(items, lo, hi) ==
    IF lo > hi THEN 0
    ELSE IF lo = hi THEN ItemMs(items[lo])
    ELSE LET mid == (lo + hi) \div 2
         IN  RangeMs(items, lo, mid) + RangeMs(items, mid + 1, hi)

PageMs(items) == RangeMs(items, 1, Len(items))

NoBackfill ==
    [pc |-> "idle", users |-> <<>>, k |-> 0, total_ms |-> 0, start |-> 0,
     txn |-> <<>>]

InitLifetime ==
    /\ lifetime_watch = <<>>
    /\ bf = NoBackfill

\* for u in users: uid = u.get("Id"); if not uid: continue
\* The index of the next user after k that has an id, 0 when there is none.
NextUser(users, k) ==
    LET c == {j \in (k + 1)..Len(users) : users[j].Id # NULL}
    IN  IF c = {} THEN 0 ELSE CHOOSE j \in c : \A x \in c : j <= x

\* INSERT OR REPLACE INTO lifetime_watch (user_id, total_ms, ...)
TablePut(t, uid, ms) ==
    [u \in DOMAIN t \cup {uid} |-> IF u = uid THEN ms ELSE t[u]]

\* The loop over users moves on from user k with the open transaction txn:
\* the first page of the next user with an id is requested, or, after the
\* last user, await conn.commit() makes txn the table.
B_Advance(users, k, txn) ==
    LET n == NextUser(users, k)
    IN  IF n = 0
        THEN /\ lifetime_watch' = txn
             /\ bf' = NoBackfill
        ELSE /\ bf' = [pc |-> "page", users |-> users, k |-> n,
                       total_ms |-> 0, start |-> 0, txn |-> txn]
             /\ UNCHANGED lifetime_watch

\* Mutant: the table is refilled without the DELETE.
B_Users_NoDelete ==
    /\ bf.pc = "users"
    /\ B_Advance(upstream_users, 0, lifetime_watch)
    /\ UNCHANGED <<played, dirVars, window, play_event, resp, pollVars,
                   pubVars, catVars>>

\* Mutant: the DELETE is committed on its own before the refill.
B_Users_DeleteCommitted ==
    /\ bf.pc = "users"
    /\ LET n == NextUser(upstream_users, 0)
       IN  /\ lifetime_watch' = <<>>
           /\ bf' = IF n = 0 THEN NoBackfill
                     ELSE [pc |-> "page", users |-> upstream_users, k |-> n,
                           total_ms |-> 0, start |-> 0, txn |-> <<>>]
    /\ UNCHANGED <<played, dirVars, window, play_event, resp, pollVars,
                   pubVars, catVars>>

\* backfill_lifetime_watch is called: the GET of /Users is sent
B_Start ==
    /\ bf.pc = "idle"
    /\ bf' = [bf EXCEPT !.pc = "users"]
    /\ UNCHANGED <<played, lifetime_watch, dirVars, window, play_event, resp,
                   pollVars, pubVars, catVars>>

\* users = ur.json() or []; conn = await db(); DELETE FROM lifetime_watch
\* opens the transaction; then the loop over users starts
B_Users ==
    /\ bf.pc = "users"
    /\ B_Advance(upstream_users, 0, <<>>)
    /\ UNCHANGED <<played, dirVars, window, play_event, resp, pollVars,
                   pubVars, catVars>>

\* the GET of /Users raises or its status is not 2xx
B_UsersFail ==
    /\ bf.pc = "users"
    /\ bf' = NoBackfill
    /\ UNCHANGED <<played, lifetime_watch, dirVars, window, play_event, resp,
                   pollVars, pubVars, catVars>>

\* A page of the user's played items arrives: an empty one ends the user's
\* loop, the total is inserted and the loop over users moves on; else the
\* items are summed, start += len(items) and the next page is requested.
B_Page ==
    /\ bf.pc = "page"
    /\ LET uid == bf.users[bf.k].Id[1]
           items == PlayedPage(played[uid], bf.start)
       IN  IF items = <<>>
           THEN B_Advance(bf.users, bf.k, TablePut(bf.txn, uid, bf.total_ms))
           ELSE /\ bf' = [bf EXCEPT !.total_ms = @ + PageMs(items),
                                    !.start = @ + Len(items)]
                /\ UNCHANGED lifetime_watch
    /\ UNCHANGED <<played, dirVars, window, play_event, resp, pollVars,
                   pubVars, catVars>>

\* the GET of a page raises or its status is not 2xx: finally conn.close()
\* drops the open transaction
B_PageFail ==
    /\ bf.pc = "page"
    /\ bf' = NoBackfill
    /\ UNCHANGED <<played, lifetime_watch, dirVars, window, play_event, resp,
                   pollVars, pubVars, catVars>>

\* db(), the DELETE, an INSERT or the commit raises: conn.close() drops the
\* open transaction, if any
B_StoreFail ==
    /\ bf.pc \in {"users", "page"}
    /\ bf' = NoBackfill
    /\ UNCHANGED <<played, lifetime_watch, dirVars, window, play_event, resp,
                   pollVars, pubVars, catVars>>

\* The state of the jobs and of the request parsing before any of them ran.
InitJobs ==
    /\ InitDirectory
    /\ InitLifetime
    /\ played = [u \in {"u1", "u2"} |-> Library(0, <<>>)]
    /\ window = <<>>

(***************************************************************************)
(* The live publisher: routers/now.py                                      *)
(***************************************************************************)
QueueIds == {1, 2}

\* publish_now: "if q.qsize() < 10"
QueueRoom == 10

\* The keep-alive interval, KEEPALIVE_SEC, in units of the clock below.
MaxIdle == 2

\* A generator that was never started; one that stands at its wait_for with
\* the timeout i units old; one that stands at the yield of a chunk; one
\* that has left through its finally.  quiet is history: the time since the
\* stream's last emission (or its start), counted up to the keep-alive
\* interval.
StreamOff == [pc |-> "off", chunk |-> "", idle |-> 0, quiet |-> 0]
StreamClosed == [pc |-> "closed", chunk |-> "", idle |-> 0, quiet |-> 0]
Connected(q) == stream[q].pc \in {"wait", "yield"}
StreamWait(i, t) == [pc |-> "wait", chunk |-> "", idle |-> i, quiet |-> t]
StreamYield(c) == [pc |-> "yield", chunk |-> c, idle |-> 0, quiet |-> 0]

\* The history of the broadcasts, kept by the specifications that start
\* with one: n counts the broadcasts; for each queue, tags are the numbers
\* of the broadcasts it holds, last is the number of the broadcast it
\* emitted last (at first, the number of the last broadcast before it was
\* registered) and full are the numbers, above last, of the broadcasts made
\* while it was registered and held QueueRoom snapshots.
NoBroadcasts == <<>>
InitBroadcasts ==
    <<[n    |-> 0,
       tags |-> [q \in QueueIds |-> <<>>],
       last |-> [q \in QueueIds |-> 0],
       full |-> [q \in QueueIds |-> {}]]>>

\* gen() registers queue q.
BroadcastsSubscribe(q) ==
    IF pub_hist = <<>> THEN <<>>
    ELSE <<[pub_hist[1] EXCEPT !.tags[q] = <<>>, !.last[q] = pub_hist[1].n,
                               !.full[q] = {}]>>

\* publish_now puts broadcast n + 1 on the queues of to, at the end.
BroadcastsPublish(to) ==
    IF pub_hist = <<>> THEN <<>>
    ELSE LET h == pub_hist[1]
         IN  <<[h EXCEPT
                  !.n = h.n + 1,
                  !.tags = [q \in QueueIds |->
                              IF q \in to THEN Append(h.tags[q], h.n + 1)
                              ELSE h.tags[q]],
                  !.full = [q \in QueueIds |->
                              IF q \in subscribers
                                 /\ Len(queue[q]) = QueueRoom
                              THEN h.full[q] \cup {h.n + 1}
                              ELSE h.full[q]]]>>

\* gen() emits the snapshot at position k of queue q; rest is what the queue
\* holds afterwards.
BroadcastsEmit(q, k, rest) ==
    IF pub_hist = <<>> THEN <<>>
    ELSE LET h == pub_hist[1]
         IN  <<[h EXCEPT !.tags[q] = rest, !.last[q] = h.tags[q][k],
                         !.full[q] = {x \in h.full[q] : x > h.tags[q][k]}]>>

\* gen() of queue q is over and the queue is garbage.
BroadcastsForget(q) ==
    IF pub_hist = <<>> THEN <<>>
    ELSE <<[pub_hist[1] EXCEPT !.tags[q] = <<>>, !.last[q] = 0,
                               !.full[q] = {}]>>

InitPublisher ==
    /\ subscribers = {}
    /\ queue = [q \in QueueIds |-> <<>>]
    /\ dropped = {}
    /\ stream = [q \in QueueIds |-> StreamOff]
    /\ pub_hist = NoBroadcasts

\* q.qsize() < 11 (mutant: off by one).
HasRoom_OffByOne(q) == Len(queue[q]) < QueueRoom + 1

\* q.qsize() < 10
HasRoom(q) == Len(queue[q]) < QueueRoom

\* safe_value on a scalar: return val
safe_value(val) == val

\* sanitize_sessions: a list is rebuilt entry by entry, a dict key by key.
sanitize_sessions(data) ==
    [k \in DOMAIN data |-> [f \in DOMAIN data[k] |-> safe_value(data[k][f])]]

\* Mutant: the snapshot goes to every queue that has room, registered or not.
PublishedQueues_Unregistered(snap) ==
    [q \in QueueIds |->
        IF HasRoom(q)
        THEN Append(queue[q], sanitize_sessions(snap)) ELSE queue[q]]

\* for q in list(_subscribers): if q.qsize() < 10: await q.put(...)
\* (the queues are unbounded asyncio.Queue()s, so put never suspends)
PublishedQueues(snap) ==
    [q \in QueueIds |->
        IF q \in subscribers /\ HasRoom(q)
        THEN Append(queue[q], sanitize_sessions(snap)) ELSE queue[q]]

\* now_stream.gen up to its first wait_for: q = asyncio.Queue();
\* _subscribers.add(q)
Subscribe(q) ==
    /\ q \notin subscribers
    /\ subscribers' = subscribers \cup {q}
    /\ queue' = [queue EXCEPT ![q] = <<>>]
    /\ stream' = [stream EXCEPT ![q] = StreamWait(0, 0)]
    /\ pub_hist' = BroadcastsSubscribe(q)
    /\ UNCHANGED <<dropped, play_event, resp, catVars, pollVars, jobVars>>

\* now_stream.gen: the transport asks for the next chunk: the loop comes
\* round to wait_for(q.get(), timeout=KEEPALIVE_SEC), with a new timeout.
Resume(q) ==
    /\ stream[q].pc = "yield"
    /\ stream' = [stream EXCEPT ![q] = StreamWait(0, stream[q].quiet)]
    /\ UNCHANGED <<subscribers, queue, dropped, pub_hist, play_event, resp,
                   catVars, pollVars, jobVars>>

\* Mutant: get() returns the snapshot that was put last.
Deliver_Newest(q) ==
    /\ stream[q].pc = "wait"
    /\ queue[q] # <<>>
    /\ queue' = [queue EXCEPT ![q] = SubSeq(queue[q], 1, Len(queue[q]) - 1)]
    /\ stream' = [stream EXCEPT ![q] = StreamYield("data")]
    /\ pub_hist' = BroadcastsEmit(q, Len(queue[q]),
                                  IF pub_hist = <<>> THEN <<>>
                                  ELSE SubSeq(pub_hist[1].tags[q], 1,
                                              Len(queue[q]) - 1))
    /\ UNCHANGED <<subscribers, dropped, play_event, resp, catVars, pollVars,
                   jobVars>>

\* now_stream.gen: data = await wait_for(q.get(), ...); yield "data: ..."
Deliver(q) ==
    /\ stream[q].pc = "wait"
    /\ queue[q] # <<>>
    /\ queue' = [queue EXCEPT ![q] = Tail(queue[q])]
    /\ stream' = [stream EXCEPT ![q] = StreamYield("data")]
    /\ pub_hist' = BroadcastsEmit(q, 1, IF pub_hist = <<>> THEN <<>>
                                        ELSE Tail(pub_hist[1].tags[q]))
    /\ UNCHANGED <<subscribers, dropped, play_event, resp, catVars, pollVars,
                   jobVars>>

\* Mutant: the heartbeat does not wait for the timeout.
KeepAlive_NoTimeout(q) ==
    /\ stream[q].pc = "wait"
    /\ queue[q] = <<>>
    /\ stream' = [stream EXCEPT ![q] = StreamYield("keep-alive")]
    /\ UNCHANGED <<subscribers, queue, dropped, pub_hist, play_event, resp,
                   catVars, pollVars, jobVars>>

\* now_stream.gen: the timeout ends with the queue still empty:
\* except asyncio.TimeoutError: yield ": keep-alive"
KeepAlive(q) ==
    /\ stream[q].pc = "wait"
    /\ queue[q] = <<>>
    /\ stream[q].idle = MaxIdle
    /\ stream' = [stream EXCEPT ![q] = StreamYield("keep-alive")]
    /\ UNCHANGED <<subscribers, queue, dropped, pub_hist, play_event, resp,
                   catVars, pollVars, jobVars>>

\* Mutant: the generator leaves without its finally; the queue object stays
\* where it is.
Disconnect_NoDiscard(q) ==
    /\ Connected(q)
    /\ stream' = [stream EXCEPT ![q] = StreamClosed]
    /\ UNCHANGED <<subscribers, queue, dropped, pub_hist, play_event, resp,
                   catVars, pollVars, jobVars>>

\* now_stream.gen: finally: _subscribers.discard(q), when the generator is
\* closed or cancelled at its wait_for or at a yield
Disconnect(q) ==
    /\ Connected(q)
    /\ subscribers' = subscribers \ {q}
    /\ queue' = [queue EXCEPT ![q] = <<>>]
    /\ dropped' = dropped \ {q}
    /\ stream' = [stream EXCEPT ![q] = StreamClosed]
    /\ pub_hist' = BroadcastsForget(q)
    /\ UNCHANGED <<play_event, resp, catVars, pollVars, jobVars>>

\* A get on a queue that holds a snapshot returns at once, a timeout that
\* has run out is raised at once: no time passes before.
Urgent(q) ==
    /\ stream[q].pc = "wait"
    /\ queue[q] # <<>> \/ stream[q].idle = MaxIdle

\* One unit of time passes: the timeouts of the waiting generators grow one
\* unit older.
Clock ==
    /\ \E q \in QueueIds : Connected(q)
    /\ \A q \in QueueIds : ~Urgent(q)
    /\ stream' = [q \in QueueIds |->
                     CASE ~Connected(q) -> stream[q]
                       [] stream[q].pc = "wait" ->
                             StreamWait(stream[q].idle + 1,
                                        Min2(stream[q].quiet + 1, MaxIdle))
                       [] OTHER ->
                             [stream[q] EXCEPT
                                !.quiet = Min2(stream[q].quiet + 1, MaxIdle)]]
    /\ UNCHANGED <<subscribers, queue, dropped, pub_hist, play_event, resp,
                   catVars, pollVars, jobVars>>

(***************************************************************************)
(* The session poller: collector_loop of tasks.py                          *)
(***************************************************************************)
MaxLedger == 3
MaxNow == 2

Session(u, i, t) ==
    [UserId |-> u, ItemId |-> i, PositionTicks |-> t, IsPaused |-> FALSE]

\* A session whose PlayState says IsPaused.
PausedSession(u, i, t) == [Session(u, i, t) EXCEPT !.IsPaused = TRUE]

\* What GET /Sessions may list: sessions of u1 on i1 at several positions
\* (absent, 0, 0.5 ms, 2 s), u1 on i2, an anonymous session, a session
\* that plays nothing and a paused session of u1 on i1.
Sessions ==
    {Session(Some("u1"), Some("i1"), t) :
        t \in {NULL, Some(0), Some(5000), Some(20000000)}}
    \cup {Session(Some("u1"), Some("i2"), Some(20000000)),
          Session(NULL, Some("i1"), Some(20000000)),
          Session(Some("u1"), NULL, NULL),
          PausedSession(Some("u1"), Some("i1"), Some(20000000))}

SessionLists ==
    {<<>>} \cup {<<a>> : a \in Sessions} \cup {<<a, b>> : a, b \in Sessions}

\* A session list none of whose sessions is recorded: one anonymous viewer.
QuietLists == {<<Session(NULL, Some("i1"), Some(20000000))>>}

NoTick == [fetched |-> FALSE, published |-> 0, written |-> 0]

InitPoller ==
    /\ pc = "fetch"
    /\ raw_sessions = <<>>
    /\ idx = 0
    /\ last_positions = <<>>
    /\ now = 0
    /\ tick = NoTick
    /\ last_snapshot = <<>>

\* _normalize_sessions, one entry per session: "user": UserName or UserId
\* or "", "itemId": item.get("Id"), "positionMs":
\* int((PositionTicks or 0) / 10000); the display fields are left out.
NormalizeSession(sess) ==
    [user       |-> IF sess.UserId = NULL THEN "" ELSE sess.UserId[1],
     itemId     |-> sess.ItemId,
     positionMs |-> IF sess.PositionTicks = NULL THEN 0
                    ELSE sess.PositionTicks[1] \div 10000]

NormalizeSessions(raw) == [k \in 1..Len(raw) |-> NormalizeSession(raw[k])]

\* pos_ms = int(pos_ms / 10000) if pos_ms else None
PosMs(sess) ==
    IF sess.PositionTicks = NULL \/ sess.PositionTicks = Some(0) THEN NULL
    ELSE Some(sess.PositionTicks[1] \div 10000)

\* if user_id and item_id and pos_ms is not None
Recordable(sess) ==
    sess.UserId # NULL /\ sess.ItemId # NULL /\ PosMs(sess) # NULL

LastKey(sess) == <<sess.UserId[1], sess.ItemId[1]>>

\* last_positions.get(last_key) != pos_ms
CacheDiffers(sess) ==
    \/ LastKey(sess) \notin DOMAIN last_positions
    \/ last_positions[LastKey(sess)] # PosMs(sess)[1]

\* last_positions[last_key] = pos_ms
CachePut(cache, key, p) ==
    [k \in DOMAIN cache \cup {key} |-> IF k = key THEN p ELSE cache[k]]

\* resp = await client.get(.../Sessions); raise_for_status(); resp.json()
FetchOk(raw) ==
    /\ pc = "fetch"
    /\ Len(play_event) + Len(raw) <= MaxLedger
    /\ raw_sessions' = raw
    /\ tick' = [NoTick EXCEPT !.fetched = TRUE]
    /\ pc' = "publish"
    /\ UNCHANGED <<idx, last_positions, now, last_snapshot, play_event, resp,
                   catVars, pubVars, jobVars>>

\* Mutant: a failed fetch is taken for an empty session list.
FetchFail_AsEmptyList ==
    /\ pc = "fetch"
    /\ raw_sessions' = <<>>
    /\ tick' = NoTick
    /\ pc' = "publish"
    /\ UNCHANGED <<idx, last_positions, now, last_snapshot, play_event, resp,
                   catVars, pubVars, jobVars>>

\* the GET raises or the status is not 2xx: logged, the tick is abandoned
FetchFail ==
    /\ pc = "fetch"
    /\ tick' = NoTick
    /\ pc' = "sleep"
    /\ UNCHANGED <<raw_sessions, idx, last_positions, now, last_snapshot,
                   play_event, resp, catVars, pubVars, jobVars>>

\* Mutant: nothing is pushed when no session is listed.
Publish_OnlyIfSessions ==
    /\ pc = "publish"
    /\ IF raw_sessions = <<>>
       THEN UNCHANGED <<queue, dropped, tick, last_snapshot, pub_hist>>
       ELSE /\ queue' = PublishedQueues(NormalizeSessions(raw_sessions))
            /\ pub_hist' = BroadcastsPublish(
                               {q \in QueueIds : queue'[q] # queue[q]})
            /\ dropped' = {q \in subscribers : ~HasRoom(q)}
            /\ tick' = [tick EXCEPT !.published = @ + 1]
            /\ last_snapshot' = NormalizeSessions(raw_sessions)
    /\ pc' = "log"
    /\ idx' = 1
    /\ UNCHANGED <<raw_sessions, last_positions, now, subscribers, stream,
                   play_event, resp, catVars, jobVars>>

\* Mutant: put waits until every registered queue has room.
Publish_Blocking ==
    /\ pc = "publish"
    /\ \A q \in subscribers : HasRoom(q)
    /\ queue' = PublishedQueues(NormalizeSessions(raw_sessions))
    /\ pub_hist' = BroadcastsPublish({q \in QueueIds : queue'[q] # queue[q]})
    /\ dropped' = {}
    /\ tick' = [tick EXCEPT !.published = @ + 1]
    /\ last_snapshot' = NormalizeSessions(raw_sessions)
    /\ pc' = "log"
    /\ idx' = 1
    /\ UNCHANGED <<raw_sessions, last_positions, now, subscribers, stream,
                   play_event, resp, catVars, jobVars>>

\* await publish_now(_normalize_sessions(raw_sessions))
Publish ==
    /\ pc = "publish"
    /\ queue' = PublishedQueues(NormalizeSessions(raw_sessions))
    /\ pub_hist' = BroadcastsPublish({q \in QueueIds : queue'[q] # queue[q]})
    /\ dropped' = {q \in subscribers : ~HasRoom(q)}
    /\ tick' = [tick EXCEPT !.published = @ + 1]
    /\ last_snapshot' = NormalizeSessions(raw_sessions)
    /\ pc' = "log"
    /\ idx' = 1
    /\ UNCHANGED <<raw_sessions, last_positions, now, subscribers, stream,
                   play_event, resp, catVars, jobVars>>

\* Mutant: the row is stamped with a time that may lie before the last one.
LogSession_AnyClock ==
    /\ pc = "log"
    /\ idx \in 1..Len(raw_sessions)
    /\ LET sess == raw_sessions[idx]
       IN  IF Recordable(sess) /\ CacheDiffers(sess)
           THEN /\ last_positions' =
                       CachePut(last_positions, LastKey(sess), PosMs(sess)[1])
                /\ \/ \E t \in 0..MaxNow :
                         /\ now' = t
                         /\ play_event' = Append(play_event,
                               [uid |-> sess.UserId[1], iid |-> sess.ItemId[1],
                                ts |-> t, pos |-> PosMs(sess)[1]])
                         /\ tick' = [tick EXCEPT !.written = @ + 1]
                         /\ idx' = idx + 1
                         /\ pc' = "log"
                   \/ /\ pc' = "sleep"
                      /\ UNCHANGED <<now, play_event, tick, idx>>
           ELSE /\ idx' = idx + 1
                /\ UNCHANGED <<last_positions, now, play_event, tick, pc>>
    /\ UNCHANGED <<raw_sessions, last_snapshot, resp, catVars, pubVars,
                   jobVars>>

\* One pass of "for sess in raw_sessions".  An accepted observation updates
\* the cache first; then db(), INSERT ... datetime('now'), commit, close,
\* any of which may raise, which abandons the rest of the tick.
LogSession ==
    /\ pc = "log"
    /\ idx \in 1..Len(raw_sessions)
    /\ LET sess == raw_sessions[idx]
       IN  IF Recordable(sess) /\ CacheDiffers(sess)
           THEN /\ last_positions' =
                       CachePut(last_positions, LastKey(sess), PosMs(sess)[1])
                /\ \/ \E t \in now..MaxNow :
                         /\ now' = t
                         /\ play_event' = Append(play_event,
                               [uid |-> sess.UserId[1], iid |-> sess.ItemId[1],
                                ts |-> t, pos |-> PosMs(sess)[1]])
                         /\ tick' = [tick EXCEPT !.written = @ + 1]
                         /\ idx' = idx + 1
                         /\ pc' = "log"
                   \/ /\ pc' = "sleep"
                      /\ UNCHANGED <<now, play_event, tick, idx>>
           ELSE /\ idx' = idx + 1
                /\ UNCHANGED <<last_positions, now, play_event, tick, pc>>
    /\ UNCHANGED <<raw_sessions, last_snapshot, resp, catVars, pubVars,
                   jobVars>>

\* the for loop is exhausted
EndTick ==
    /\ pc = "log"
    /\ idx > Len(raw_sessions)
    /\ pc' = "sleep"
    /\ UNCHANGED <<raw_sessions, idx, last_positions, now, tick,
                   last_snapshot, play_event, resp, catVars, pubVars,
                   jobVars>>

\* await asyncio.sleep(KEEPALIVE_SEC); the tick's locals are dead
Sleep ==
    /\ pc = "sleep"
    /\ pc' = "fetch"
    /\ raw_sessions' = <<>>
    /\ idx' = 0
    /\ tick' = NoTick
    /\ last_snapshot' = <<>>
    /\ UNCHANGED <<last_positions, now, play_event, resp, catVars, pubVars,
                   jobVars>>

InitPoll ==
    /\ play_event = <<>>
    /\ resp = NoResp
    /\ InitPoller
    /\ InitPublisher
    /\ upstream = 0
    /\ InitCatalog
    /\ InitJobs

PollerNext(lists) ==
    \/ \E raw \in lists : FetchOk(raw)
    \/ FetchFail
    \/ Publish
    \/ LogSession
    \/ EndTick
    \/ Sleep

NextPoll == PollerNext(SessionLists)

SpecPoll == InitPoll /\ [][NextPoll]_vars

\* The subscribers without the clock: no timeout runs out.
SubscriberNext ==
    \/ \E q \in QueueIds : Subscribe(q)
    \/ \E q \in QueueIds : Resume(q)
    \/ \E q \in QueueIds : Deliver(q)
    \/ \E q \in QueueIds : Disconnect(q)

NextPub == PollerNext(QuietLists) \/ SubscriberNext

SpecPub == InitPoll /\ [][NextPub]_vars

\* The event loop runs the poller whenever it can take a step; a subscriber
\* may stall for ever.
SpecPubFair == SpecPub /\ WF_vars(PollerNext(QuietLists))

\* The subscribers with the clock, and the poller.
NextStream ==
    \/ PollerNext(QuietLists)
    \/ SubscriberNext
    \/ \E q \in QueueIds : KeepAlive(q)
    \/ Clock

SpecStream == InitPoll /\ [][NextStream]_vars

\* The broadcasts by number: the poller makes up to MaxBroadcasts of them
\* while the streams come, read and go.
MaxBroadcasts == 12

InitOrder ==
    /\ play_event = <<>>
    /\ resp = NoResp
    /\ InitPoller
    /\ subscribers = {}
    /\ queue = [q \in QueueIds |-> <<>>]
    /\ dropped = {}
    /\ stream = [q \in QueueIds |-> StreamOff]
    /\ pub_hist = InitBroadcasts
    /\ upstream = 0
    /\ InitCatalog
    /\ InitJobs

\* The poller, until it has made MaxBroadcasts broadcasts.
Broadcasting ==
    /\ pc = "fetch" => pub_hist[1].n < MaxBroadcasts
    /\ PollerNext(QuietLists)

NextOrder ==
    \/ Broadcasting
    \/ SubscriberNext

SpecOrder == InitOrder /\ [][NextOrder]_vars

\* The catalog refresh alone.
InitCat ==
    /\ play_event = <<>>
    /\ resp = NoResp
    /\ InitPoller
    /\ InitPublisher
    /\ upstream \in UpstreamSizes
    /\ InitCatalog
    /\ InitJobs

NextCat ==
    \/ admin_refresh
    \/ admin_refresh_full
    \/ \E w \in WorkerIds : W_Start(w)
    \/ \E w \in WorkerIds : W_Open(w)
    \/ \E w \in WorkerIds : W_OpenFail(w)
    \/ \E w \in WorkerIds : W_Page(w)
    \/ \E w \in WorkerIds : W_PageFail(w)
    \/ \E w \in WorkerIds : W_Store(w)
    \/ \E w \in WorkerIds : W_StoreFail(w)
    \/ \E w \in WorkerIds : W_Close(w)

SpecCat == InitCat /\ [][NextCat]_vars

\* The catalog jobs with their history, against a media server whose items
\* come, change and go between the jobs.  The failures of the worker are
\* left to SpecCat.
HdItem ==
    MediaItem(Some("Movie"),
              <<Stream(Some("Video"), Some(1080), Some("H264"))>>, <<>>)

MediaChoices(n) == IF n = 0 THEN {<<>>} ELSE {<<>>, <<HdItem>>}

\* The media server gains, changes or loses items while no catalog job
\* exists.
UpstreamChange ==
    /\ \A w \in WorkerIds : ~HasJob(w)
    /\ \E n \in UpstreamSizes : \E c \in MediaChoices(n) :
          /\ <<n, c>> # <<upstream, media>>
          /\ upstream' = n
          /\ media' = c
    /\ cat_hist' = IF cat_hist = NULL THEN NULL
                   ELSE Some([cat_hist[1] EXCEPT !.done = NULL, !.runs = 0])
    /\ UNCHANGED <<library_item, library_cols, refresh_state, worker, reply,
                   play_event, resp, pollVars, pubVars, jobVars>>

InitImport ==
    /\ play_event = <<>>
    /\ resp = NoResp
    /\ InitPoller
    /\ InitPublisher
    /\ upstream \in UpstreamSizes
    /\ media \in MediaChoices(upstream)
    /\ library_item = {}
    /\ library_cols = <<>>
    /\ refresh_state = InitRefreshState
    /\ worker = [w \in WorkerIds |-> NoWorker]
    /\ reply = NoReply
    /\ cat_hist = InitHistory
    /\ InitJobs

\* The tasks of the first two workers are run; a third request finds them
\* busy and its task waits.
ImportWorkers == {1, 2}

NextImport ==
    \/ UpstreamChange
    \/ admin_refresh
    \/ admin_refresh_full
    \/ \E w \in ImportWorkers : W_Start(w)
    \/ \E w \in ImportWorkers : W_Open(w)
    \/ \E w \in ImportWorkers : W_Page(w)
    \/ \E w \in ImportWorkers : W_Store(w)
    \/ \E w \in ImportWorkers : W_Close(w)

SpecImport == InitImport /\ [][NextImport]_vars

\* The catalog jobs against an upstream that stays as it is and answers,
\* and a store that works.
InitPages ==
    /\ play_event = <<>>
    /\ resp = NoResp
    /\ InitPoller
    /\ InitPublisher
    /\ upstream \in UpstreamSizes
    /\ InitCatalog
    /\ InitJobs

NextPages ==
    \/ admin_refresh
    \/ admin_refresh_full
    \/ \E w \in ImportWorkers : W_Start(w)
    \/ \E w \in ImportWorkers : W_Open(w)
    \/ \E w \in ImportWorkers : W_Page(w)
    \/ \E w \in ImportWorkers : W_Store(w)
    \/ \E w \in ImportWorkers : W_Close(w)

SpecPages == InitPages /\ [][NextPages]_vars

\* A step of the task of worker w.
WorkerStep(w) ==
    W_Start(w) \/ W_Open(w) \/ W_Page(w) \/ W_Store(w) \/ W_Close(w)

\* The event loop runs every task that can go on.
SpecPagesFair ==
    SpecPages /\ \A w \in ImportWorkers : WF_vars(WorkerStep(w))

\* The directory sync alone, against a changing media server.
InitDir ==
    /\ play_event = <<>>
    /\ resp = NoResp
    /\ InitPoller
    /\ InitPublisher
    /\ upstream = 0
    /\ InitCatalog
    /\ InitJobs

NextDir ==
    \/ UpstreamUsersChange
    \/ S_Start
    \/ S_Users
    \/ S_UsersFail
    \/ S_Write
    \/ S_WriteFail

SpecDir == InitDir /\ [][NextDir]_vars

\* The directory sync of users_sync_loop next to the syncs that requests
\* start.
NextTrigger ==
    \/ UpstreamUsersChange
    \/ S_Start
    \/ S_Users
    \/ S_UsersFail
    \/ S_Write
    \/ S_WriteFail
    \/ admin_users_sync
    \/ \E t \in SyncTaskIds : T_Users(t)
    \/ \E t \in SyncTaskIds : T_UsersFail(t)
    \/ \E t \in SyncTaskIds : T_Write(t)
    \/ \E t \in SyncTaskIds : T_WriteFail(t)

SpecTrigger == InitDir /\ [][NextTrigger]_vars

\* The lifetime backfill alone: the libraries are drawn at the start, the
\* user list changes.
InitLife ==
    /\ play_event = <<>>
    /\ resp = NoResp
    /\ InitPoller
    /\ InitPublisher
    /\ upstream = 0
    /\ InitCatalog
    /\ InitDirectory
    /\ InitLifetime
    /\ played \in [{"u1", "u2"} -> Libraries]
    /\ played["u2"] \in {Library(0, <<>>),
                         Library(0, <<PlayedItem(Some(30000), Some(2))>>)}
    /\ window = <<>>

NextLife ==
    \/ UpstreamUsersChange
    \/ B_Start
    \/ B_Users
    \/ B_UsersFail
    \/ B_Page
    \/ B_PageFail
    \/ B_StoreFail

SpecLife == InitLife /\ [][NextLife]_vars

(***************************************************************************)
(* Watch-time reconstruction: the SQL of routers/stats.py                  *)
(***************************************************************************)
cap_ms == 5000

\* Rounding error (in units of 1/675 of the double's last place) of
\* julianday(t).  SQLite returns iJD / 86400000.0 with iJD the Julian day in
\* whole milliseconds; for present-day dates the double has 31 fractional
\* bits, so julianday(t) = round(k * 2^24 / 675) / 2^31 with k the whole
\* seconds since a Julian noon, and because 43200 = 64 * 675 only the second
\* of the day matters.  2^24 mod 675 = 91.
JdErr(t) ==
    LET ph == (91 * (t + 86398)) % 675
    IN  IF ph <= 337 THEN 0 - ph ELSE 675 - ph

\* CAST((julianday(ts) - julianday(pts)) * 86400000 AS INTEGER): the
\* subtraction and the product are exact in binary64, the CAST truncates, so
\* the result is one short of the true gap when ts rounded down further than
\* pts did.
WallGapMs(pts, ts) ==
    1000 * (ts - pts) - (IF JdErr(ts) < JdErr(pts) THEN 1 ELSE 0)

\* d_ms without the wall-clock bound (mutant).
d_ms_NoWallGap(pos, ppos, pts, ts) ==
    Max2(0, Min2(pos - ppos, cap_ms))

\* d_ms without the per-tick cap (mutant).
d_ms_NoCap(pos, ppos, pts, ts) ==
    Max2(0, Min2(pos - ppos, WallGapMs(pts, ts)))

\* CAST(MAX(0, MIN(COALESCE(pos-ppos,0), ?, <wall gap>)) AS INTEGER)
d_ms(pos, ppos, pts, ts) ==
    Max2(0, Min2(Min2(pos - ppos, cap_ms), WallGapMs(pts, ts)))

\* Mutant: the rows before the cutoff take part in the LAG.
InWindow_Unfiltered(L, cutoff) ==
    IF cutoff = NULL THEN {} ELSE DOMAIN L

\* WHERE datetime(event_ts) >= datetime('now', ?): a NULL cutoff compares
\* NULL with every row, and the row is not selected.
InWindow(L, cutoff) ==
    IF cutoff = NULL THEN {} ELSE {k \in DOMAIN L : L[k].ts >= cutoff[1]}

\* PARTITION BY emby_user_id, item_id (stats_usage, top_users) or
\* PARTITION BY item_id (top_items).
PartKey(r, byItem) == IF byItem THEN <<r.iid>> ELSE <<r.uid, r.iid>>

\* ORDER BY datetime(event_ts): every order of the selected row ids that is
\* nondecreasing in ts; SQL leaves the order among equal timestamps open.
MinTs(S, L) == {k \in S : \A j \in S : L[k].ts <= L[j].ts}

RECURSIVE SortOrders(_, _)
SortOrders(S, L) ==
    IF S = {} THEN {<<>>}
    ELSE UNION {{<<k>> \o o : o \in SortOrders(S \ {k}, L)} : k \in MinTs(S, L)}

\* LAG(...) OVER (PARTITION BY ... ORDER BY ...): the place in o of the row
\* before o[n] in its partition, 0 when o[n] is the first of its partition.
LagIdx(o, n, L, byItem) ==
    LET c == {m \in 1..(n - 1) :
                 PartKey(L[o[m]], byItem) = PartKey(L[o[n]], byItem)}
    IN  IF c = {} THEN 0 ELSE CHOOSE m \in c : \A x \in c : x <= m

\* The CTE "o" / "ordered": one row per selected ledger row, with the lagged
\* position and timestamp (NULL for the first row of a partition).
OrderedCte(o, L, byItem) ==
    {LET m == LagIdx(o, n, L, byItem)
     IN  [cur  |-> o[n],
          prev |-> IF m = 0 THEN NULL ELSE Some(o[m]),
          ppos |-> IF m = 0 THEN NULL ELSE Some(L[o[m]].pos),
          pts  |-> IF m = 0 THEN NULL ELSE Some(L[o[m]].ts)] : n \in 1..Len(o)}

\* GROUP BY ts, uid, iid  /  GROUP BY ts, iid
SameGroup(a, b, L, byItem) ==
    /\ L[a.cur].ts = L[b.cur].ts
    /\ PartKey(L[a.cur], byItem) = PartKey(L[b.cur], byItem)

\* The CTE "d" / "deltas": WHERE ppos IS NOT NULL AND pts IS NOT NULL, then
\* GROUP BY without an aggregate: SQLite keeps one row of each group, which
\* one is not specified.  Every admissible choice of kept rows.
DeltaChoices(O, L, byItem) ==
    LET W == {x \in O : x.ppos # NULL /\ x.pts # NULL}
    IN  {R \in SUBSET W :
            \A x \in W : Cardinality({y \in R : SameGroup(x, y, L, byItem)}) = 1}

DeltaRows(R, L) ==
    {[uid  |-> L[x.cur].uid, iid |-> L[x.cur].iid,
      ts   |-> L[x.cur].ts,  pos |-> L[x.cur].pos,
      puid |-> L[x.prev[1]].uid,
      pts  |-> x.pts[1],     ppos |-> x.ppos[1],
      d_ms |-> d_ms(L[x.cur].pos, x.ppos[1], x.pts[1], L[x.cur].ts)] : x \in R}

\* Every content the CTE "d" can have for ledger L.
DeltaSets(L, cutoff, byItem) ==
    UNION {{DeltaRows(R, L) : R \in DeltaChoices(O, L, byItem)} :
              O \in {OrderedCte(o, L, byItem) : o \in SortOrders(InWindow(L, cutoff), L)}}

RECURSIVE SumMs(_)
SumMs(D) ==
    IF D = {} THEN 0
    ELSE LET x == CHOOSE y \in D : TRUE IN x.d_ms + SumMs(D \ {x})

\* date(ts)
DayOf(t) == (t + 86398) \div 86400

\* SELECT user, SUM(d_ms) ... GROUP BY user       (totals kept in ms)
UserTotals(D) ==
    [u \in {x.uid : x \in D} |-> SumMs({x \in D : x.uid = u})]

\* SELECT iid, SUM(d_ms) ... GROUP BY iid
ItemTotals(D) ==
    [i \in {x.iid : x \in D} |-> SumMs({x \in D : x.iid = i})]

\* SELECT day, user, SUM(d_ms) ... GROUP BY day, user
DayUserTotals(D) ==
    [k \in {<<DayOf(x.ts), x.uid>> : x \in D} |->
        SumMs({x \in D : <<DayOf(x.ts), x.uid>> = k})]

\* datetime('now', ?) as the queries receive it
Cutoffs == {Some(0), Some(4)}

\* GET /stats/top/users
top_users(cutoff) ==
    /\ resp = NoResp
    /\ \E D \in DeltaSets(play_event, cutoff, FALSE) :
          resp' = [op |-> "top_users", cutoff |-> cutoff, d |-> D,
                   out |-> UserTotals(D)]
    /\ UNCHANGED <<play_event, pollVars, pubVars, catVars, jobVars>>

\* GET /stats/top/items
top_items(cutoff) ==
    /\ resp = NoResp
    /\ \E D \in DeltaSets(play_event, cutoff, TRUE) :
          resp' = [op |-> "top_items", cutoff |-> cutoff, d |-> D,
                   out |-> ItemTotals(D)]
    /\ UNCHANGED <<play_event, pollVars, pubVars, catVars, jobVars>>

\* GET /stats/usage
stats_usage(cutoff) ==
    /\ resp = NoResp
    /\ cutoff # NULL
    /\ \E D \in DeltaSets(play_event, cutoff, FALSE) :
          resp' = [op |-> "stats_usage", cutoff |-> cutoff, d |-> D,
                   out |-> DayUserTotals(D)]
    /\ UNCHANGED <<play_event, pollVars, pubVars, catVars, jobVars>>

\* Ledgers of at most MaxRows rows, listed by (ts, pos, uid): the queries do
\* not depend on the order of insertion.  The queries treat all user ids
\* alike, so the first row is taken to be u1's.
RowRank(r) == (r.ts * 10000 + r.pos) * 2 + (IF r.uid = "u1" THEN 0 ELSE 1)

Ledgers ==
    UNION {{L \in [1..n -> Row] :
               /\ n > 0 => L[1].uid = "u1"
               /\ \A k \in 1..(n - 1) : RowRank(L[k]) <= RowRank(L[k + 1])} :
           n \in 0..MaxRows}

InitRecon ==
    /\ play_event \in Ledgers
    /\ resp = NoResp
    /\ InitPoller
    /\ InitPublisher
    /\ upstream = 0
    /\ InitCatalog
    /\ InitJobs

\* The handler returns its answer and closes its connection.
Return ==
    /\ resp # NoResp
    /\ resp' = NoResp
    /\ UNCHANGED <<play_event, pollVars, pubVars, catVars, jobVars>>

NextRecon ==
    \/ Return
    \/ \E c \in Cutoffs : top_users(c)
    \/ \E c \in Cutoffs : top_items(c)
    \/ \E c \in Cutoffs : stats_usage(c)

SpecRecon == InitRecon /\ [][NextRecon]_vars

\* The whole core together: the poller, the directory sync, the catalog
\* refresh (one worker task is run, others may be queued), the full catalog
\* refresh, the lifetime backfill and the read queries, against a media server
\* with one user, one played item and one catalog item.  The failures of the
\* jobs and POST /admin/refresh, which starts the same worker as the full
\* refresh, are left to SpecDir, SpecCat and SpecLife.
CoreLists == {<<Session(Some("u1"), Some("i1"), Some(20000000))>>}

InitCore ==
    /\ play_event = <<>>
    /\ resp = NoResp
    /\ InitPoller
    /\ InitPublisher
    /\ upstream = 1
    /\ InitCatalog
    /\ upstream_users = <<UserEntry(Some("u1"))>>
    /\ emby_user = {}
    /\ sync = NoSync
    /\ sync_task = [t \in SyncTaskIds |-> NoSync]
    /\ InitLifetime
    /\ played = [u \in {"u1", "u2"} |->
                    Library(0, <<PlayedItem(Some(30000), Some(2))>>)]
    /\ window = <<>>

NextCore ==
    \/ PollerNext(CoreLists)
    \/ S_Start \/ S_Users \/ S_Write
    \/ admin_refresh_full
    \/ W_Start(1) \/ W_Open(1) \/ W_Page(1) \/ W_Store(1) \/ W_Close(1)
    \/ B_Start \/ B_Users \/ B_Page
    \/ top_users(Some(0)) \/ top_items(Some(0)) \/ stats_usage(Some(0))
    \/ Return

SpecCore == InitCore /\ [][NextCore]_vars

(***************************************************************************)
(* The window parameter of top_users / top_items: routers/stats.py         *)
(***************************************************************************)
\* Strings are sequences of one-character strings.
Digits == {"0", "1", "2", "3", "4", "5", "6", "7", "8", "9"}

DigitVal(c) ==
    CASE c = "0" -> 0 [] c = "1" -> 1 [] c = "2" -> 2 [] c = "3" -> 3
      [] c = "4" -> 4 [] c = "5" -> 5 [] c = "6" -> 6 [] c = "7" -> 7
      [] c = "8" -> 8 [] c = "9" -> 9

\* int(n) of a string of digits
RECURSIVE DigitsVal(_)
DigitsVal(s) ==
    IF s = <<>> THEN 0
    ELSE 10 * DigitsVal(SubSeq(s, 1, Len(s) - 1)) + DigitVal(s[Len(s)])

\* str.lower(), on the upper-case letters the windows below are written with
LowerChar(c) ==
    CASE c = "A" -> "a" [] c = "D" -> "d" [] c = "E" -> "e" [] c = "L" -> "l"
      [] OTHER -> c

lower(s) == [k \in DOMAIN s |-> LowerChar(s[k])]

\* str.strip()
RECURSIVE strip(_)
strip(s) ==
    IF s = <<>> THEN s
    ELSE IF s[1] = " " THEN strip(Tail(s))
    ELSE IF s[Len(s)] = " " THEN strip(SubSeq(s, 1, Len(s) - 1))
    ELSE s

\* The leading digits of s: the group (\d+) of the pattern.
RECURSIVE DigitPrefix(_)
DigitPrefix(s) ==
    IF s # <<>> /\ s[1] \in Digits THEN <<s[1]>> \o DigitPrefix(Tail(s))
    ELSE <<>>

\* units = {'d': 'days', 'h': 'hours', 'w': 'weeks', 'm': 'months'}
units ==
    [d |-> <<"d", "a", "y", "s">>,
     h |-> <<"h", "o", "u", "r", "s">>,
     w |-> <<"w", "e", "e", "k", "s">>,
     m |-> <<"m", "o", "n", "t", "h", "s">>]

\* re.fullmatch(r'(\d+)\s*([dhwm])', s): digits, then blanks, then one unit
\* letter.
fullmatch(s) ==
    LET n == DigitPrefix(s)
    IN  /\ n # <<>>
        /\ Len(s) > Len(n)
        /\ s[Len(s)] \in DOMAIN units
        /\ \A k \in (Len(n) + 1)..(Len(s) - 1) : s[k] = " "

Unbounded ==
    {<<"a", "l", "l">>, <<"l", "i", "f", "e", "t", "i", "m", "e">>,
     <<"e", "v", "e", "r">>}

\* _window_to_sql: None for all / lifetime / ever, "-<n> <units>" for a
\* matching string, "-30 days" for every other string.
window_to_sql(w) ==
    LET s == strip(lower(w))
    IN  IF s \in Unbounded THEN NULL
        ELSE IF ~fullmatch(s) THEN Some(<<"-", "3", "0", " ", "d", "a", "y", "s">>)
        ELSE Some(<<"-">> \o DigitPrefix(s) \o <<" ">> \o units[s[Len(s)]])

\* The calendar.  Time is counted in seconds with 00:00:00 UTC of the first
\* of January of a common year at t = 2; the years around it are taken to be
\* common years too, which holds for the three years a date of these models
\* can fall in.
DaysBefore == <<0, 31, 59, 90, 120, 151, 181, 212, 243, 273, 304, 334>>
DayOfYear(t) == (t - 2) \div 86400
SecOfDay(t) == (t - 2) % 86400
MonthOf(t) ==
    CHOOSE m \in 1..12 :
        /\ DaysBefore[m] <= DayOfYear(t) % 365
        /\ m < 12 => DayOfYear(t) % 365 < DaysBefore[m + 1]

\* SQLite's "-N months": the month number goes back by N, the day of the
\* month and the time of day are kept, and a day past the end of the month
\* runs on into the next month.
MinusMonths(t, n) ==
    LET yr  == DayOfYear(t) \div 365
        doy == DayOfYear(t) % 365
        dom == doy - DaysBefore[MonthOf(t)]
        k   == 12 * yr + (MonthOf(t) - 1) - n
    IN  2 + (365 * (k \div 12) + DaysBefore[(k % 12) + 1] + dom) * 86400
          + SecOfDay(t)

\* The unit names SQLite's date modifiers "NNN <unit>" accept, each with or
\* without the final "s".
SqlUnits ==
    [second |-> <<"s", "e", "c", "o", "n", "d">>,
     minute |-> <<"m", "i", "n", "u", "t", "e">>,
     hour   |-> <<"h", "o", "u", "r">>,
     day    |-> <<"d", "a", "y">>,
     month  |-> <<"m", "o", "n", "t", "h">>,
     year   |-> <<"y", "e", "a", "r">>]

SqlUnitOf(name) ==
    {u \in DOMAIN SqlUnits : name \in {SqlUnits[u], SqlUnits[u] \o <<"s">>}}

UnitSeconds(u) ==
    CASE u = "second" -> 1 [] u = "minute" -> 60 [] u = "hour" -> 3600
      [] u = "day" -> 86400

\* datetime('now', ?) at time t: NULL when the parameter is NULL or is not a
\* modifier SQLite knows, else t moved back by the modifier "-N <unit>".
datetime_now(t, since) ==
    IF since = NULL THEN NULL
    ELSE LET s == since[1]
             n == DigitPrefix(Tail(s))
             name == SubSeq(s, Len(n) + 3, Len(s))
         IN  IF \/ s[1] # "-" \/ n = <<>> \/ Len(s) < Len(n) + 3
                \/ s[Len(n) + 2] # " " \/ SqlUnitOf(name) = {}
             THEN NULL
             ELSE LET u == CHOOSE x \in SqlUnitOf(name) : TRUE
                  IN  CASE u = "month" -> Some(MinusMonths(t, DigitsVal(n)))
                        [] u = "year" -> Some(MinusMonths(t, 12 * DigitsVal(n)))
                        [] OTHER -> Some(t - DigitsVal(n) * UnitSeconds(u))

\* The window strings the queries are called with: "7d", "2w", "1h", "1m",
\* "30d", "007d", " 7 D ", "bogus", "d7", "", "all", "lifetime", "Ever".
Windows ==
    {<<"7", "d">>, <<"2", "w">>, <<"1", "h">>, <<"1", "m">>,
     <<"3", "0", "d">>, <<"0", "0", "7", "d">>, <<" ", "7", " ", "D", " ">>,
     <<"b", "o", "g", "u", "s">>, <<"d", "7">>, <<>>,
     <<"a", "l", "l">>, <<"l", "i", "f", "e", "t", "i", "m", "e">>,
     <<"E", "v", "e", "r">>}

\* The time of the queries: 12:00:00 UTC on 31 March.
QueryNow == 2 + 89 * 86400 + 43200

\* Ledgers for the window queries: viewing sessions of two observations two
\* seconds and 2000 ms of position apart, the later one made the given number
\* of seconds before QueryNow: half an hour, 3 days, exactly 7 days, exactly
\* 14 days, 29 days, 60 days.  Each session has its own item, so that no two
\* sessions share a partition.
SessionAges ==
    <<1800, 3 * 86400, 7 * 86400, 14 * 86400, 29 * 86400, 60 * 86400>>
MaxWindowSessions == 2

RECURSIVE SessionRows(_, _)
SessionRows(S, k) ==
    IF k = 0 THEN <<>>
    ELSE IF k \notin S THEN SessionRows(S, k - 1)
    ELSE LET uid == IF k % 2 = 1 THEN "u1" ELSE "u2"
             iid == <<"i1", "i2", "i3", "i4", "i5", "i6">>[k]
             ts  == QueryNow - SessionAges[k]
         IN  <<[uid |-> uid, iid |-> iid, ts |-> ts - 2, pos |-> 0],
               [uid |-> uid, iid |-> iid, ts |-> ts, pos |-> 2000]>>
             \o SessionRows(S, k - 1)

WindowLedgers ==
    {SessionRows(S, Len(SessionAges)) :
        S \in {T \in SUBSET (1..Len(SessionAges)) :
                  Cardinality(T) <= MaxWindowSessions}}

\* GET /stats/top/users?window=w
top_users_window(w) ==
    /\ resp = NoResp
    /\ window' = w
    /\ LET cutoff == datetime_now(now, window_to_sql(w))
       IN  \E D \in DeltaSets(play_event, cutoff, FALSE) :
              resp' = [op |-> "top_users", cutoff |-> cutoff, d |-> D,
                       out |-> UserTotals(D)]
    /\ UNCHANGED <<play_event, pollVars, pubVars, catVars, dirVars, lifeVars>>

\* GET /stats/top/items?window=w
top_items_window(w) ==
    /\ resp = NoResp
    /\ window' = w
    /\ LET cutoff == datetime_now(now, window_to_sql(w))
       IN  \E D \in DeltaSets(play_event, cutoff, TRUE) :
              resp' = [op |-> "top_items", cutoff |-> cutoff, d |-> D,
                       out |-> ItemTotals(D)]
    /\ UNCHANGED <<play_event, pollVars, pubVars, catVars, dirVars, lifeVars>>

InitWindow ==
    /\ play_event \in WindowLedgers
    /\ resp = NoResp
    /\ pc = "fetch"
    /\ raw_sessions = <<>>
    /\ idx = 0
    /\ last_positions = <<>>
    /\ now = QueryNow
    /\ tick = NoTick
    /\ last_snapshot = <<>>
    /\ InitPublisher
    /\ upstream = 0
    /\ InitCatalog
    /\ InitJobs

NextWindow ==
    \/ \E w \in Windows : top_users_window(w)
    \/ \E w \in Windows : top_items_window(w)
    \/ Return

SpecWindow == InitWindow /\ [][NextWindow]_vars

(***************************************************************************)
(* The catalog's columns and GET /stats/qualities: admin.py, stats.py      *)
(***************************************************************************)
\* The row of catalog item i; an item whose columns are not described is a
\* plain item.
CatalogRow(i) ==
    IF i \in DOMAIN library_cols THEN library_cols[i] ELSE RowOf(PlainItem)

\* A bucketing whose 1080p begins above 1080.
bucket_Off1080(video_height) ==
    IF video_height = NULL \/ video_height = Some(0) THEN "Unknown"
    ELSE IF video_height[1] >= 2160 THEN "4K"
    ELSE IF video_height[1] > 1080 THEN "1080p"
    ELSE IF video_height[1] >= 720 THEN "720p"
    ELSE "SD"

\* CASE WHEN video_height IS NULL OR video_height = 0 THEN 'Unknown'
\*      WHEN video_height >= 2160 THEN '4K' WHEN video_height >= 1080 THEN
\*      '1080p' WHEN video_height >= 720 THEN '720p' ELSE 'SD' END
bucket(video_height) ==
    IF video_height = NULL \/ video_height = Some(0) THEN "Unknown"
    ELSE IF video_height[1] >= 2160 THEN "4K"
    ELSE IF video_height[1] >= 1080 THEN "1080p"
    ELSE IF video_height[1] >= 720 THEN "720p"
    ELSE "SD"

\* COALESCE(type, 'Unknown')
TypeName(type) == IF type = NULL THEN "Unknown" ELSE type[1]

\* SELECT bucket, t, COUNT(*) ... GROUP BY 1, 2, folded into
\* out[bucket][type]
QualityCounts ==
    LET key(i) == <<bucket(CatalogRow(i).video_height),
                    TypeName(CatalogRow(i).type)>>
    IN  [k \in {key(i) : i \in library_item} |->
            Cardinality({i \in library_item : key(i) = k})]

\* GET /stats/qualities
stats_qualities ==
    /\ resp = NoResp
    /\ resp' = [op |-> "stats_qualities", cutoff |-> NULL, d |-> {},
                out |-> QualityCounts]
    /\ UNCHANGED <<play_event, pollVars, pubVars, catVars, jobVars>>

\* The streams of the items below: plain video streams, a video stream
\* written in lower case, one without codec, one with an empty codec, an
\* audio stream with a height, video streams without height, with height 0,
\* with a negative height and with a height that is not an int, and a second
\* codec at 1080.
MediaStreamChoices ==
    {Stream(Some("Video"), Some(1080), Some("H264")),
     Stream(Some("video"), Some(2160), Some("hevc")),
     Stream(Some("Video"), Some(720), NULL),
     Stream(Some("Video"), Some(719), Some("")),
     Stream(Some("Audio"), Some(4000), Some("aac")),
     Stream(Some("Video"), NULL, Some("h264")),
     Stream(Some("Video"), Some(0), Some("h264")),
     Stream(Some("Video"), Some(0 - 480), Some("h264")),
     Stream(Some("Video"), <<4000, "float">>, Some("HEVC")),
     Stream(Some("Video"), Some(1080), Some("HEVC")),
     Stream(NULL, Some(2160), Some("h264"))}

\* Items with up to two streams of their own and with no media source, one
\* media source or two.
RichItems ==
    {MediaItem(Some("Movie"), own, src) :
        own \in {<<>>} \cup {<<a>> : a \in MediaStreamChoices}
                       \cup {<<a, b>> : a, b \in MediaStreamChoices},
        src \in {<<>>,
                 <<<<Stream(Some("video"), Some(2160), Some("hevc"))>>>>,
                 <<<<Stream(Some("Video"), NULL, Some("h264"))>>,
                   <<Stream(Some("Audio"), Some(4000), Some("aac")),
                     Stream(Some("Video"), Some(1080), Some("H264"))>>>>}}

\* Items of either type, or of none, with one video stream at the edge of a
\* bucket, or with no stream.
BucketHeights == {1, 719, 720, 1079, 1080, 2159, 2160, 4000}
BucketItems ==
    {MediaItem(t, <<Stream(Some("Video"), Some(h), Some("H264"))>>, <<>>) :
        t \in {Some("Movie"), Some("Episode"), NULL}, h \in BucketHeights}
    \cup {MediaItem(t, <<>>, <<>>) : t \in {Some("Movie"), NULL}}

MediaLists ==
    {<<a>> : a \in RichItems} \cup {<<a, b>> : a, b \in BucketItems}

\* The catalog refresh of a media server with one or two described items,
\* and the quality statistics.
InitMedia ==
    /\ play_event = <<>>
    /\ resp = NoResp
    /\ InitPoller
    /\ InitPublisher
    /\ media \in MediaLists
    /\ upstream = Len(media)
    /\ library_item = {}
    /\ library_cols = <<>>
    /\ refresh_state = InitRefreshState
    /\ worker = [w \in WorkerIds |-> NoWorker]
    /\ reply = NoReply
    /\ cat_hist = NoHistory
    /\ InitJobs

NextMedia ==
    \/ admin_refresh
    \/ W_Start(1) \/ W_Open(1) \/ W_Page(1) \/ W_Store(1) \/ W_Close(1)
    \/ stats_qualities
    \/ Return

SpecMedia == InitMedia /\ [][NextMedia]_vars

(***************************************************************************)
(* GET /stats/active-users: routers/stats.py                               *)
(***************************************************************************)
\* Mutant: the hours are taken from the minutes before the days are taken
\* off.
format_row_NoDayCarry(user, total_ms) ==
    LET mins  == total_ms \div 60000
        days  == mins \div (60 * 24)
        hours == mins \div 60
    IN  [user |-> IF user = "" THEN "Unknown" ELSE user,
         days |-> days, hours |-> hours, minutes |-> mins - hours * 60]

\* _format_active_users, one row: ms = int(total_ms or 0); mins = ms //
\* 60000; days = mins // (60 * 24); mins -= days * 60 * 24; hours = mins //
\* 60; mins -= hours * 60; "user": r["user"] or "Unknown"
format_row(user, total_ms) ==
    LET mins  == total_ms \div 60000
        days  == mins \div (60 * 24)
        mins2 == mins - days * 60 * 24
        hours == mins2 \div 60
    IN  [user |-> IF user = "" THEN "Unknown" ELSE user,
         days |-> days, hours |-> hours, minutes |-> mins2 - hours * 60]

Placeholder == [user |-> "Unknown", days |-> 0, hours |-> 0, minutes |-> 0]

\* _format_active_users: the rows formatted, then
\* "while len(out) < limit: out.append({...})".
format_active_users(rows, limit) ==
    [k \in 1..Max2(Len(rows), limit) |->
        IF k <= Len(rows) THEN format_row(rows[k].user, rows[k].total_ms)
        ELSE Placeholder]

\* ORDER BY lw.total_ms DESC LIMIT ?: every listing of the first limit rows
\* of lifetime_watch by falling total_ms; equal totals come in any order.
RECURSIVE TopOrders(_, _)
TopOrders(S, limit) ==
    IF S = {} \/ limit = 0 THEN {<<>>}
    ELSE UNION {{<<u>> \o o : o \in TopOrders(S \ {u}, limit - 1)} :
                  u \in {v \in S : \A x \in S :
                            lifetime_watch[x] <= lifetime_watch[v]}}

\* emby_user.name as the LEFT JOIN finds it: none for a user outside the
\* directory, else the name the sync stored, which may be null or empty.
UserNames == {NULL, Some(""), Some("Ann")}
NameChoices(u) == IF u \in emby_user THEN UserNames ELSE {NULL}

\* The limits a request may carry.
MaxLimit == 3

\* GET /stats/active-users?limit=: _get_active_users(limit).  The answer
\* keeps the selected rows next to the formatted list.
stats_active_users(limit) ==
    /\ resp = NoResp
    /\ \E o \in TopOrders(DOMAIN lifetime_watch, limit) :
       \E names \in [DOMAIN lifetime_watch -> UserNames] :
          /\ \A u \in DOMAIN lifetime_watch : names[u] \in NameChoices(u)
          /\ LET rows == [k \in 1..Len(o) |->
                            [user_id  |-> o[k],
                             user     |-> IF names[o[k]] = NULL THEN o[k]
                                          ELSE names[o[k]][1],
                             total_ms |-> lifetime_watch[o[k]]]]
             IN  resp' = [op |-> "active_users", cutoff |-> NULL,
                          d |-> [limit |-> limit, rows |-> rows],
                          out |-> format_active_users(rows, limit)]
    /\ UNCHANGED <<play_event, pollVars, pubVars, catVars, jobVars>>

\* Lifetime totals: none, a minute less a millisecond, a minute, an hour
\* less a millisecond, a day less a millisecond, a day, a day an hour a
\* minute and a second, and the largest the model can hold.
LifetimeTotals ==
    {0, 59999, 60000, 3599999, 86399999, 86400000, 90061000, 2147483647}

LifetimeTables ==
    {<<>>}
    \cup {("u1" :> a) : a \in LifetimeTotals}
    \cup {("u1" :> a) @@ ("u2" :> b) : a, b \in LifetimeTotals}

InitActive ==
    /\ play_event = <<>>
    /\ resp = NoResp
    /\ InitPoller
    /\ InitPublisher
    /\ upstream = 0
    /\ InitCatalog
    /\ upstream_users = <<>>
    /\ emby_user \in {{}, {"u1"}}
    /\ sync = NoSync
    /\ sync_task = [t \in SyncTaskIds |-> NoSync]
    /\ lifetime_watch \in LifetimeTables
    /\ bf = NoBackfill
    /\ played = [u \in {"u1", "u2"} |-> Library(0, <<>>)]
    /\ window = <<>>

NextActive ==
    \/ \E limit \in 0..MaxLimit : stats_active_users(limit)
    \/ Return

SpecActive == InitActive /\ [][NextActive]_vars

(***************************************************************************)
(* Claims about the reconstruction (checked under SpecRecon)               *)
(***************************************************************************)
PerPartitionOp == resp.op \in {"stats_usage", "top_users"}

\* The true wall-clock gap and the position difference of a credited pair.
TrueGapMs(x) == 1000 * (x.ts - x.pts)
RawDelta(x) == x.pos - x.ppos

\* The pair (prev, cur) of a delta row is a pair of ledger rows.
IsLedgerPair(x) ==
    \E a, b \in DOMAIN play_event :
        /\ a # b
        /\ play_event[a] = [uid |-> x.puid, iid |-> x.iid, ts |-> x.pts, pos |-> x.ppos]
        /\ play_event[b] = [uid |-> x.uid, iid |-> x.iid, ts |-> x.ts, pos |-> x.pos]

\* C1: every delta credited by stats_usage / top_users belongs to a pair
\* (prev, cur) of one (user, item) partition with prev not later than cur,
\* and satisfies 0 <= delta <= min(5000 ms, cur.timestamp - prev.timestamp).
C1_DeltaBounds ==
    PerPartitionOp =>
        \A x \in resp.d :
            /\ IsLedgerPair(x)
            /\ x.puid = x.uid
            /\ x.pts <= x.ts
            /\ 0 <= x.d_ms
            /\ x.d_ms <= Min2(cap_ms, TrueGapMs(x))

\* A pair whose position advanced further than the wall clock was credited.
C1_Witness ==
    /\ resp.op = "stats_usage"
    /\ \E x \in resp.d :
          /\ RawDelta(x) > TrueGapMs(x)
          /\ TrueGapMs(x) < cap_ms
          /\ x.d_ms > 0

\* The samples of the rewind scenario, for user u starting at t0.
RewindScenario(u, t0) ==
    /\ t0 + 4 \in Times
    /\ {k \in DOMAIN play_event : play_event[k].uid = u} = {1, 2, 3}
    /\ play_event[1] = [uid |-> u, iid |-> "i1", ts |-> t0, pos |-> 0]
    /\ play_event[2] = [uid |-> u, iid |-> "i1", ts |-> t0 + 2, pos |-> 2000]
    /\ play_event[3] = [uid |-> u, iid |-> "i1", ts |-> t0 + 4, pos |-> 500]

\* C2: a rewind (cur.position < prev.position) is credited exactly 0, and the
\* samples (t0, 0 ms), (t0+2000 ms, 2000 ms), (t0+4000 ms, 500 ms) of one
\* partition total 2000 ms.
C2_RewindAndScenario ==
    PerPartitionOp =>
        /\ \A x \in resp.d : RawDelta(x) < 0 => x.d_ms = 0
        /\ \A u \in Users : \A t0 \in Times :
              (RewindScenario(u, t0) /\ resp.cutoff = Some(0)
                  /\ resp.op = "top_users")
              => (u \in DOMAIN resp.out /\ resp.out[u] = 2000)

\* C3: a credited pair whose position difference and wall-clock gap both
\* exceed 5000 ms is credited exactly 5000 ms.
C3_Ceiling ==
    PerPartitionOp =>
        \A x \in resp.d :
            (RawDelta(x) > cap_ms /\ TrueGapMs(x) > cap_ms) => x.d_ms = cap_ms

C3_Witness ==
    /\ resp.op = "top_users"
    /\ \E x \in resp.d :
          RawDelta(x) > cap_ms /\ TrueGapMs(x) > cap_ms /\ x.d_ms = cap_ms

\* What the (user, item) delta stream credits to the items, for every way
\* SQL may order equal timestamps and keep one row per group.
PerPartitionItemTotals(cutoff) ==
    {ItemTotals(D) : D \in DeltaSets(play_event, cutoff, FALSE)}

\* The time a totals table credits to key k (a key without a row: nothing).
Credit(out, k) == IF k \in DOMAIN out THEN out[k] ELSE 0

\* C4: the time top_items credits to each item is the sum of the clamped
\* deltas of that item's (user, item) partitions (so the items' total equals
\* the users' total of top_users on the same ledger and window).
C4_ItemsFedByPartitionStream ==
    resp.op = "top_items" =>
        \E T \in PerPartitionItemTotals(resp.cutoff) :
            \A i \in Items : Credit(resp.out, i) = Credit(T, i)

(***************************************************************************)
(* Claims about the poller, under SpecPoll                                 *)
(***************************************************************************)
\* The poller handles session number idx of this tick.
SessionStep ==
    /\ pc = "log"
    /\ idx \in 1..Len(raw_sessions)
    /\ <<pc, idx>>' # <<pc, idx>>

\* The store raised while the observation was written: nothing is appended
\* and the tick is abandoned.
StoreRaised == pc' = "sleep" /\ play_event' = play_event

\* The session names a user and an item and reports a position.
HasPosition(sess) ==
    sess.UserId # NULL /\ sess.ItemId # NULL /\ sess.PositionTicks # NULL

\* The dedup rule applied to session number idx, whose position is p: with
\* no cache entry for (u, i), or another position in it, the entry becomes p,
\* no other entry changes and the row (u, i, p) is appended; else neither the
\* ledger nor the cache changes.  A store that raises on the INSERT is not
\* held against the rule.
DedupRule(p) ==
    LET sess == raw_sessions[idx]
        u == sess.UserId[1]
        i == sess.ItemId[1]
        fresh == \/ <<u, i>> \notin DOMAIN last_positions
                 \/ last_positions[<<u, i>>] # p
    IN  IF fresh
        THEN /\ DOMAIN last_positions' = DOMAIN last_positions \cup {<<u, i>>}
             /\ last_positions'[<<u, i>>] = p
             /\ \A k \in DOMAIN last_positions \ {<<u, i>>} :
                   last_positions'[k] = last_positions[k]
             /\ \/ StoreRaised
                \/ /\ Len(play_event') = Len(play_event) + 1
                   /\ SubSeq(play_event', 1, Len(play_event)) = play_event
                   /\ play_event'[Len(play_event')].uid = u
                   /\ play_event'[Len(play_event')].iid = i
                   /\ play_event'[Len(play_event')].pos = p
        ELSE /\ play_event' = play_event
             /\ last_positions' = last_positions

\* C5: in each tick, the observation of a session with user id, item id and
\* position p is appended to the ledger exactly when the dedup cache has no
\* entry for (u, i) or holds a position other than p; when it is accepted the
\* entry for (u, i) becomes p; when it is skipped neither the ledger nor the
\* cache changes.
C5_DedupFilter ==
    [][(SessionStep /\ HasPosition(raw_sessions[idx])) =>
          DedupRule(raw_sessions[idx].PositionTicks[1] \div 10000)]_vars

\* The rule does hold for every session whose position is not 0 ticks.
DedupFilter_NonZero ==
    [][(SessionStep /\ HasPosition(raw_sessions[idx])
          /\ raw_sessions[idx].PositionTicks[1] # 0) =>
          DedupRule(raw_sessions[idx].PositionTicks[1] \div 10000)]_vars

\* The normalized form of one fetched session.
IsNormalized(entry, sess) ==
    /\ entry.itemId = sess.ItemId
    /\ entry.user = (IF sess.UserId = NULL THEN "" ELSE sess.UserId[1])
    /\ entry.positionMs = (IF sess.PositionTicks = NULL THEN 0
                           ELSE sess.PositionTicks[1] \div 10000)

\* C6: in every tick whose fetch succeeded publish_now is called exactly once,
\* before any session is logged, with a snapshot holding every fetched session
\* in normalized form and in order, whether or not an observation of the tick
\* is written; a tick whose fetch failed publishes nothing.
C6_OneSnapshotPerTick ==
    /\ pc \in {"fetch", "publish"} => tick.published = 0
    /\ ~tick.fetched => tick.published = 0
    /\ (tick.fetched /\ pc \in {"log", "sleep"}) =>
          /\ tick.published = 1
          /\ Len(last_snapshot) = Len(raw_sessions)
          /\ \A k \in 1..Len(raw_sessions) :
                IsNormalized(last_snapshot[k], raw_sessions[k])

\* A tick with two recordable sessions, both unchanged, so that nothing was
\* written, and the snapshot of both was published.
C6_Witness ==
    /\ pc = "sleep"
    /\ tick = [fetched |-> TRUE, published |-> 1, written |-> 0]
    /\ Len(raw_sessions) = 2
    /\ \A k \in 1..2 : Recordable(raw_sessions[k])
    /\ raw_sessions[1] # raw_sessions[2]
    /\ Len(last_snapshot) = 2

(***************************************************************************)
(* Claims about the publisher, under SpecPub and SpecPubFair               *)
(***************************************************************************)
\* The poller's call of publish_now.
PublishStep == pc = "publish" /\ pc' = "log"

\* The snapshot the call hands over.
Snapshot == [k \in 1..Len(raw_sessions) |-> NormalizeSession(raw_sessions[k])]

\* C7: no subscriber queue ever holds more than 10 snapshots; a publish_now
\* call appends the snapshot to every registered queue that holds fewer than
\* 10 and leaves a queue that holds 10 as it is, dropping the snapshot for
\* that subscriber only.
C7_QueueBound ==
    [][/\ \A q \in QueueIds : Len(queue[q]) <= 10 /\ Len(queue'[q]) <= 10
       /\ PublishStep =>
             \A q \in subscribers :
                IF Len(queue[q]) < 10
                THEN queue'[q] = Append(queue[q], Snapshot)
                ELSE queue'[q] = queue[q]]_vars

\* Right after a publish_now call: one queue was full and was passed over,
\* another received the snapshot.
C7_Witness ==
    /\ pc = "log" /\ idx = 1
    /\ \E a \in dropped : \E b \in subscribers \ dropped :
          /\ Len(queue[a]) = 10
          /\ queue[b] # <<>>
          /\ queue[b][Len(queue[b])] = last_snapshot

\* C8: publish_now never waits for a subscriber: however many subscribers stop
\* reading their queues, the poller leaves publish_now and reaches the fetch of
\* its next tick, and every call still hands the snapshot to every subscriber
\* whose queue has room.
C8_PollerNeverBlocked ==
    /\ (pc = "publish") ~> (pc = "fetch")
    /\ [][PublishStep =>
             \A q \in subscribers :
                Len(queue[q]) < 10 =>
                   /\ queue'[q] # <<>>
                   /\ queue'[q][Len(queue'[q])] = Snapshot]_vars

\* The poller is at the fetch of a later tick although a subscriber's queue
\* was full at the last publish_now call and still is; another subscriber
\* holds what was published.
C8_Witness ==
    /\ pc = "fetch"
    /\ \E a \in dropped : \E b \in subscribers \ dropped :
          /\ Len(queue[a]) = 10
          /\ Len(queue[b]) \in 1..9

(***************************************************************************)
(* Claims about the catalog refresh, under SpecCat                         *)
(***************************************************************************)
\* A worker executes from its first step, which raises the running flag,
\* until it lowers the flag or dies.
Executing(w) == worker[w].pc \in {"open", "get", "store"}

\* A worker that was created and has not finished.
Unfinished(w) == worker[w].pc \in {"created", "open", "get", "store"}

\* C9: at most one catalog refresh worker is executing, and the running flag
\* is true exactly while a worker is executing.
C9_SingleFlight ==
    /\ Cardinality({w \in WorkerIds : Executing(w)}) <= 1
    /\ refresh_state.running <=> \E w \in WorkerIds : Executing(w)

\* C10: a POST /admin/refresh that arrives while an earlier worker has not
\* finished, be it before that worker's first step, starts no worker, changes
\* neither the progress state nor the catalog, and answers with the running
\* run's progress (running = true, its page and imported count).
C10_SecondRefreshStartsNothing ==
    [][(admin_refresh /\ \E w \in WorkerIds : Unfinished(w)) =>
          /\ worker' = worker
          /\ refresh_state' = refresh_state
          /\ library_item' = library_item
          /\ reply'.started = FALSE
          /\ reply'.progress = Some([running |-> TRUE,
                                     imported |-> refresh_state.imported,
                                     total |-> refresh_state.total,
                                     page |-> refresh_state.page])]_vars

\* A worker stops on a failure: of db(), of the GET of a page or its status,
\* of an insert or the commit.
WorkerFails(w) == W_OpenFail(w) \/ W_PageFail(w) \/ W_StoreFail(w)

\* C11: whenever a refresh worker stops on a failure after it set running =
\* true (opening the store, fetching a page, a non-2xx status, writing an
\* item), the progress state then has running = false and error set, and the
\* items committed by earlier pages are still in the catalog.
C11_FailureRecorded ==
    [][(\E w \in WorkerIds : WorkerFails(w)) =>
          /\ refresh_state'.running = FALSE
          /\ refresh_state'.error # NULL
          /\ library_item \subseteq library_item']_vars

(***************************************************************************)
(* Further claims about the poller, under SpecPoll                         *)
(***************************************************************************)
\* play_event holds the committed rows, which are what a query running at
\* that moment reads; tick.written counts the rows this tick has committed.
\* The poller commits an observation of this tick.
CommitStep == Len(play_event') > Len(play_event)

\* The store raises on an observation the poller accepted: it is never
\* written.
AbandonStep ==
    pc = "log" /\ pc' = "sleep" /\ last_positions' # last_positions

\* C12: no state a concurrent query can read shows some but not all of the
\* observations accepted in one tick: when observations of a tick become
\* visible none of that tick is visible yet and none follows later in the
\* tick, and a tick interrupted by a failure leaves none of its accepted
\* observations visible without the others.
C12_TickAtomicity ==
    [][/\ CommitStep => tick.written = 0
       /\ AbandonStep => tick.written = 0]_vars

(***************************************************************************)
(* Claims about the core as a whole, under SpecCore                        *)
(***************************************************************************)
\* C13: the ledger is append-only: whatever the poller, the directory sync,
\* the catalog refresh, the full catalog refresh, the lifetime backfill and
\* the read queries do, no play_event row is deleted or changed; the ledger
\* changes only when the poller, logging a session, inserts one new row after
\* the others.
C13_LedgerAppendOnly ==
    [][play_event' # play_event =>
          /\ pc = "log"
          /\ Len(play_event') = Len(play_event) + 1
          /\ SubSeq(play_event', 1, Len(play_event)) = play_event]_vars

\* The ledger holds a row although a full refresh has wiped a catalog that
\* had been filled, the backfill has replaced the lifetime table, the
\* directory sync has written the users and a query has been answered.
C13_Witness ==
    /\ Len(play_event) = 1
    /\ reply.full /\ library_item = {} /\ refresh_state.imported = 1
    /\ lifetime_watch # <<>>
    /\ emby_user # {}
    /\ resp.op = "top_users"

(***************************************************************************)
(* Claims about the lifetime backfill, under SpecLife                      *)
(***************************************************************************)
\* lifetime_watch is the committed table, which is what a concurrent reader
\* sees.  The backfill stops on a failure.
BackfillFails == B_UsersFail \/ B_PageFail \/ B_StoreFail

\* The users of the run in progress: the list it fetched, or is fetching.
RunUsers == IF bf.pc = "page" THEN bf.users ELSE upstream_users

\* C14: the backfill replaces the lifetime table atomically: while a run is
\* in progress and when it fails at any point (user list fetch, page fetch,
\* insert) the table a reader sees is the one of before the run; it changes
\* in the one step that ends a run, to the complete table of that run, with
\* a row for each of its users.
C14_AtomicReplace ==
    [][/\ (bf'.pc # "idle" \/ BackfillFails) =>
             lifetime_watch' = lifetime_watch
       /\ lifetime_watch' # lifetime_watch =>
             /\ bf.pc # "idle" /\ bf'.pc = "idle"
             /\ DOMAIN lifetime_watch' = UserIds(RunUsers)]_vars

\* A run is half way: its transaction holds one of its two users, and the
\* readers still see the table of the run before, which is another one.
C14_Witness ==
    /\ bf.pc = "page"
    /\ lifetime_watch # <<>>
    /\ bf.txn # <<>>
    /\ DOMAIN bf.txn # UserIds(bf.users)
    /\ DOMAIN bf.txn # DOMAIN lifetime_watch

\* (runtimeTicks div 10000) * max(playCount, 1) of one item; an absent run
\* time counts 0 and an absent play count is below 1.
PlayedMs(it) ==
    LET ticks == IF it.RunTimeTicks = NULL THEN 0 ELSE it.RunTimeTicks[1]
        plays == IF it.PlayCount = NULL THEN 1 ELSE Max2(it.PlayCount[1], 1)
    IN  (ticks \div 10000) * plays

\* The sum of PlayedMs over items lo..hi of a list.
RECURSIVE PlayedRangeMs(_, _, _)
PlayedRangeMs(items, lo, hi) ==
    IF lo > hi THEN 0
    ELSE IF lo = hi THEN PlayedMs(items[lo])
    ELSE LET mid == (lo + hi) \div 2
         IN  PlayedRangeMs(items, lo, mid) + PlayedRangeMs(items, mid + 1, hi)

\* C15: after a successful backfill the total stored for a user is the sum,
\* over all of the user's played items across all pages, of
\* (runtimeTicks div 10000) * max(playCount, 1), whatever the play counts:
\* absent, zero or negative.
C15_LifetimeTotal ==
    \A u \in DOMAIN lifetime_watch :
       lifetime_watch[u] =
          PlayedRangeMs(PlayedSeq(played[u]), 1, Len(PlayedSeq(played[u])))

\* A run ends with its commit.
BackfillCommits == bf.pc # "idle" /\ bf'.pc = "idle" /\ ~BackfillFails

\* C16: the lifetime table is rebuilt wholesale: when a backfill ends with
\* its commit the table holds one row for each user of the upstream list that
\* has an id, with total 0 for a user without played items, and no other
\* row, whatever rows it held before the run.
C16_RebuiltWholesale ==
    [][BackfillCommits =>
          /\ DOMAIN lifetime_watch' = UserIds(RunUsers)
          /\ \A u \in DOMAIN lifetime_watch' :
                PlayedSeq(played[u]) = <<>> => lifetime_watch'[u] = 0]_vars

\* A run is about to commit (its last user's last page is empty) while the
\* table still holds a row of a user who is no longer upstream, and its last
\* user has no played items.
C16_Witness ==
    /\ bf.pc = "page"
    /\ NextUser(bf.users, bf.k) = 0
    /\ PlayedSeq(played[bf.users[bf.k].Id[1]]) = <<>>
    /\ DOMAIN lifetime_watch \ UserIds(bf.users) # {}

(***************************************************************************)
(* Claims about the directory sync, under SpecDir                          *)
(***************************************************************************)
\* A sync writes the users it fetched and commits.
SyncSucceeds ==
    S_Write /\ \A k \in 1..Len(sync.users) : sync.users[k].Id # NULL

\* C17: upstream is authoritative for the user directory: after a successful
\* sync the local user ids are exactly the upstream user ids; local users
\* absent upstream are gone, and an empty upstream list leaves the directory
\* empty.
C17_DirectoryEqualsUpstream ==
    [][SyncSucceeds => emby_user' = UserIds(sync.users)]_vars

(***************************************************************************)
(* Claims about the window parameter, under SpecWindow                     *)
(***************************************************************************)
\* A top_users / top_items answer is in flight; window is its parameter.
WindowOp == resp.op \in {"top_users", "top_items"}
ByItem == resp.op = "top_items"

\* The deltas of the whole ledger: time 0 precedes every observation.
WholeLedgerDeltas == DeltaSets(play_event, Some(0), ByItem)

\* C18: a window of "all", "lifetime" or "ever" disables the time filter:
\* top_users and top_items compute their totals over every observation of the
\* ledger, however old, so a ledger with a positive delta gives a non-empty
\* result.
C18_UnboundedWindow ==
    (WindowOp /\ strip(lower(window)) \in Unbounded) =>
        /\ resp.d \in WholeLedgerDeltas
        /\ (\E D \in WholeLedgerDeltas : \E x \in D : x.d_ms > 0) =>
              DOMAIN resp.out # {}

\* The window is written <N><unit> with unit one of d, h, w, m.
Canonical(w) == fullmatch(w) /\ Len(w) = Len(DigitPrefix(w)) + 1

\* The window matches neither the grammar nor all / lifetime / ever.
NonMatching(w) ==
    ~fullmatch(strip(lower(w))) /\ strip(lower(w)) \notin Unbounded

\* The cutoff a window names: now minus N days / N hours / 7N days /
\* N months, and now minus 30 days for a string that matches nothing.
NamedCutoff(w) ==
    IF ~Canonical(w) THEN now - 30 * 86400
    ELSE LET n == DigitsVal(DigitPrefix(w))
             u == w[Len(w)]
         IN  CASE u = "d" -> now - n * 86400
               [] u = "h" -> now - n * 3600
               [] u = "w" -> now - 7 * n * 86400
               [] u = "m" -> MinusMonths(now, n)

\* C19: window strings select the cutoff they name: the query includes
\* exactly the observations with timestamp >= now minus N days / N hours /
\* 7N days / N months for <N><unit>, and now minus 30 days for every string
\* that matches neither this grammar nor all / lifetime / ever.
C19_WindowCutoff ==
    (WindowOp /\ (Canonical(window) \/ NonMatching(window))) =>
        InWindow(play_event, resp.cutoff)
            = InWindow(play_event, Some(NamedCutoff(window)))

\* The same without the unit w: holds.
WindowCutoff_NoWeeks ==
    (WindowOp /\ (Canonical(window) \/ NonMatching(window))
              /\ ~(Canonical(window) /\ window[Len(window)] = "w")) =>
        resp.cutoff = Some(NamedCutoff(window))

(***************************************************************************)
(* Claims about a failed poll, under SpecPoll                              *)
(***************************************************************************)
\* The session fetch of a tick raises or answers with an error status.
FailedPoll == pc = "fetch" /\ pc' # "fetch" /\ ~tick'.fetched

\* C20: a failed poll abandons the tick without side effects: no observation
\* is written, no snapshot is broadcast, the dedup cache is unchanged, the
\* loop does not terminate, and the next fetch is attempted only after the
\* normal tick interval: the poller goes to its sleep, which it leaves only
\* for the next fetch and can always leave.
C20_FailedPollAbandonsTick ==
    /\ [](pc = "sleep" => ENABLED Sleep)
    /\ [][/\ FailedPoll =>
                /\ play_event' = play_event
                /\ last_positions' = last_positions
                /\ queue' = queue /\ dropped' = dropped
                /\ tick'.published = 0 /\ tick'.written = 0
                /\ pc' = "sleep"
          /\ (pc = "sleep" /\ pc' # "sleep") => pc' = "fetch"]_vars

\* Asleep after a failed poll, with a ledger and a cache from earlier ticks.
C20_Witness ==
    /\ pc = "sleep"
    /\ ~tick.fetched
    /\ play_event # <<>>
    /\ last_positions # <<>>

(***************************************************************************)
(* Claims about store failures in the poller, under SpecPoll               *)
(***************************************************************************)
\* The store raises on an accepted observation: the cache has taken the
\* position and the ledger has not.
StoreFails ==
    pc = "log" /\ last_positions' # last_positions /\ play_event' = play_event

\* C21: a durable-store write failure for one observation does not stop the
\* tick or the process: the poller goes on to the next session of the same
\* tick (and from its sleep to the next tick).
C21_StoreFailureSkipsOne ==
    /\ [](pc = "sleep" => ENABLED Sleep)
    /\ [][StoreFails => pc' = "log" /\ idx' = idx + 1]_vars

(***************************************************************************)
(* Claims about the subscriber streams, under SpecStream                   *)
(***************************************************************************)
\* The stream of q emits a chunk.
Emits(q, c) ==
    stream[q].pc = "wait" /\ stream'[q].pc = "yield" /\ stream'[q].chunk = c

\* The stream of q comes back to its wait.
Rewaits(q) == stream[q].pc = "yield" /\ stream'[q].pc = "wait"

\* The timeout of q has run its full interval with nothing in the queue.
IdleOut(q) ==
    stream[q].pc = "wait" /\ queue[q] = <<>> /\ stream[q].idle = MaxIdle

\* C22: a connected subscriber emits a heartbeat if and only if no snapshot
\* has become available to it for a full keep-alive interval since its last
\* emission: a heartbeat is emitted only with an empty queue a full interval
\* after the last emission, and once a wait has lasted the interval with an
\* empty queue no time passes before the heartbeat; every emission, snapshot
\* or heartbeat, is followed by a wait with a fresh timer; a snapshot is
\* emitted from the head of the queue, and a heartbeat leaves every queue as
\* it is.
C22_KeepAlive ==
    /\ [](\A q \in QueueIds :
             /\ stream[q].idle <= MaxIdle
             /\ IdleOut(q) => (ENABLED KeepAlive(q) /\ ~ENABLED Clock))
    /\ [][\A q \in QueueIds :
             /\ Emits(q, "keep-alive") =>
                   /\ queue[q] = <<>>
                   /\ stream[q].quiet = MaxIdle
                   /\ queue' = queue
             /\ Emits(q, "data") =>
                   /\ queue[q] # <<>>
                   /\ queue'[q] = Tail(queue[q])
             /\ Rewaits(q) => stream'[q].idle = 0
             /\ (Emits(q, "data") \/ Emits(q, "keep-alive")) =>
                   stream'[q].quiet = 0]_vars

\* A heartbeat is being sent to one subscriber, and a snapshot published
\* since waits in its queue, while the other subscriber is sent a snapshot.
C22_Witness ==
    \E q, r \in QueueIds :
        /\ stream[q].pc = "yield" /\ stream[q].chunk = "keep-alive"
        /\ queue[q] # <<>>
        /\ stream[r].pc = "yield" /\ stream[r].chunk = "data"

\* C23: the subscriber registry contains exactly the queues of the currently
\* connected subscribers: a queue is added when its stream starts and removed
\* on every exit of the stream, from its wait or from a yield, so after a
\* subscriber has disconnected no broadcast enqueues anything for it.
C23_RegistryIsConnected ==
    /\ [](subscribers = {q \in QueueIds : Connected(q)})
    /\ [][\A q \in QueueIds :
             /\ (~Connected(q) /\ Connected(q)') => q \in subscribers'
             /\ (Connected(q) /\ ~Connected(q)') => q \notin subscribers'
             /\ ~Connected(q) => queue'[q] = <<>>]_vars

\* Right after a broadcast: one subscriber has disconnected and holds
\* nothing, the other has received the snapshot.
C23_Witness ==
    /\ pc = "log" /\ idx = 1
    /\ \E q, r \in QueueIds :
          /\ stream[q].pc = "closed"
          /\ queue[q] = <<>>
          /\ Connected(r)
          /\ queue[r] # <<>>
          /\ queue[r][Len(queue[r])] = last_snapshot

\* C24: a broadcast tolerates membership changes: publish_now walks a copy
\* of the registry taken when it starts, so it always completes, leaves the
\* registry as it is, and its recipients are exactly the subscribers
\* registered at the moment it started whose queues have free space.
C24_BroadcastRecipients ==
    /\ [](pc = "publish" => ENABLED Publish)
    /\ [][PublishStep =>
             /\ subscribers' = subscribers
             /\ \A q \in QueueIds :
                   IF q \in subscribers /\ Len(queue[q]) < QueueRoom
                   THEN queue'[q] = Append(queue[q], Snapshot)
                   ELSE queue'[q] = queue[q]]_vars

\* Right after a broadcast: a subscriber that stopped reading was passed over
\* with a full queue, and a subscriber that registered since the broadcast
\* before holds this snapshot and nothing else.
C24_Witness ==
    /\ pc = "log" /\ idx = 1
    /\ \E q, r \in QueueIds :
          /\ stream[q].pc = "yield" /\ Len(queue[q]) = QueueRoom
          /\ q \in dropped
          /\ stream[r].pc = "wait" /\ queue[r] = <<last_snapshot>>

(***************************************************************************)
(* Claims about the catalog import, under SpecImport                       *)
(***************************************************************************)
\* C25: the catalog refresh is idempotent: once a refresh has run to its end
\* against the present upstream data, running it again leaves the catalog
\* with the same rows and the same column values, during the second run and
\* after it; there is one row per item id (the columns are a function of the
\* id).
C25_RefreshIdempotent ==
    /\ DOMAIN library_cols = library_item \cap Described
    /\ cat_hist[1].done # NULL =>
          <<library_item, library_cols>> = cat_hist[1].done[1]

\* A second refresh has run to its end over two pages of unchanged items.
C25_Witness ==
    /\ cat_hist[1].runs = 2
    /\ upstream = 201
    /\ media = <<HdItem>>
    /\ library_item = 1..201
    /\ library_cols[1].video_height = Some(1080)

(***************************************************************************)
(* Claims about the catalog's columns (checked under SpecMedia)            *)
(***************************************************************************)
\* The video-type streams of an item: those of its own stream list and of
\* every one of its media sources.
VideoStreamsOf(item) ==
    LET all == {item.MediaStreams[k] : k \in DOMAIN item.MediaStreams}
               \cup UNION {{src[k] : k \in DOMAIN src} :
                      src \in {item.MediaSources[j] :
                                  j \in DOMAIN item.MediaSources}}
    IN  {st \in all : st.Type \in {Some("Video"), Some("video")}}

\* Those of them with a positive integer height.
SizedVideoStreamsOf(item) ==
    {st \in VideoStreamsOf(item) :
        st.Height # NULL /\ Len(st.Height) = 1 /\ st.Height[1] > 0}

\* C26: for every imported item, the stored height is the greatest height
\* among all the video streams, with a positive integer height, of the item's
\* own stream list and of every one of its media sources; the stored codec is
\* the codec (in lower case, an empty one counting as none) of a stream of
\* that height; both are null when the item has no such stream.
C26_BestVideoStream ==
    \A i \in library_item \cap DOMAIN library_cols :
        LET sized == SizedVideoStreamsOf(media[i])
            row   == library_cols[i]
        IN  IF sized = {}
            THEN row.video_height = NULL /\ row.video_codec = NULL
            ELSE /\ row.video_height # NULL
                 /\ \E st \in sized : st.Height = row.video_height
                 /\ \A st \in sized : st.Height[1] <= row.video_height[1]
                 /\ \E st \in sized : /\ st.Height = row.video_height
                                      /\ Candidate(st).codec = row.video_codec

\* An item whose own video stream is 1080 high and one of whose media
\* sources holds a 2160 one, next to an audio stream that claims 4000, is
\* stored with 2160 and the codec of that source's stream.
C26_Witness ==
    /\ media = <<MediaItem(Some("Movie"),
                    <<Stream(Some("Audio"), Some(4000), Some("aac")),
                      Stream(Some("Video"), Some(1080), Some("H264"))>>,
                    <<<<Stream(Some("video"), Some(2160), Some("hevc"))>>>>)>>
    /\ 1 \in library_item
    /\ library_cols[1].video_height = Some(2160)
    /\ library_cols[1].video_codec = Some("hevc")

\* The bucket of a height, as the specification names them.
QualityBucket(h) ==
    IF h = NULL \/ h[1] < 1 THEN "Unknown"
    ELSE IF h[1] <= 719 THEN "SD"
    ELSE IF h[1] <= 1079 THEN "720p"
    ELSE IF h[1] <= 2159 THEN "1080p"
    ELSE "4K"

QualityBuckets == {"Unknown", "SD", "720p", "1080p", "4K"}

RECURSIVE SumOf(_, _)
SumOf(f, keys) ==
    IF keys = {} THEN 0
    ELSE LET k == CHOOSE x \in keys : TRUE
         IN  f[k] + SumOf(f, keys \ {k})

\* A step that answers GET /stats/qualities.
QualitiesStep == resp.op = "none" /\ resp'.op = "stats_qualities"

\* C29: the answer of /stats/qualities counts every catalog item in exactly
\* one bucket: under each pair of a bucket and a type stands the number of
\* catalog items of that type (Unknown for none) whose height lies in the
\* bucket's range (Unknown null or below 1, SD 1..719, 720p 720..1079,
\* 1080p 1080..2159, 4K from 2160), and the counts add up to the number of
\* catalog items.
C29_QualityPartition ==
    [][QualitiesStep =>
        LET out == resp'.out
            in(b, t) == {i \in library_item :
                            /\ QualityBucket(CatalogRow(i).video_height) = b
                            /\ TypeName(CatalogRow(i).type) = t}
        IN  /\ \A k \in DOMAIN out :
                  /\ k[1] \in QualityBuckets
                  /\ out[k] = Cardinality(in(k[1], k[2]))
                  /\ out[k] > 0
            /\ \A i \in library_item :
                  <<QualityBucket(CatalogRow(i).video_height),
                    TypeName(CatalogRow(i).type)>> \in DOMAIN out
            /\ SumOf(out, DOMAIN out) = Cardinality(library_item)]_vars

\* An answer over a catalog of a 1079 high movie and a 1080 high item without
\* type: one under 720p/Movie and one under 1080p/Unknown.
C29_Witness ==
    /\ resp.op = "stats_qualities"
    /\ library_item = {1, 2}
    /\ resp.out = (<<"720p", "Movie">> :> 1) @@ (<<"1080p", "Unknown">> :> 1)

(***************************************************************************)
(* Claims about the full refresh (checked under SpecImport)                *)
(***************************************************************************)
\* A full refresh, requested while no catalog job existed and joined by no
\* other job since, reaches the end of its pages.
FullRefreshCompletes ==
    /\ cat_hist[1].kind = "full"
    /\ cat_hist[1].done = NULL
    /\ cat_hist'[1].done # NULL

\* A step of an incremental refresh: its request, or a step taken while
\* every catalog job since the last idle moment is an incremental one.
IncrementalStep ==
    \/ cat_hist'[1].kind = "plain"
    \/ cat_hist[1].kind = "plain" /\ cat_hist'[1].kind = "idle"

\* C27: when a full refresh completes with no other catalog job interleaved,
\* the catalog holds exactly the items upstream returned, with their columns;
\* no step of an incremental refresh removes an item from the catalog.
C27_FullRefreshWipes ==
    /\ [][FullRefreshCompletes =>
            /\ library_item' = 1..upstream
            /\ library_cols' = [i \in Described \cap (1..upstream) |->
                                   RowOf(UpstreamItem(i))]]_vars
    /\ [][IncrementalStep => library_item \subseteq library_item']_vars

\* A full refresh that found items in the catalog which upstream no longer
\* has is complete, and the catalog is upstream's one item.
C27_Witness ==
    /\ cat_hist[1].kind = "full"
    /\ cat_hist[1].gone
    /\ cat_hist[1].done # NULL
    /\ upstream = 1
    /\ library_item = {1}

(***************************************************************************)
(* Claims about the triggers of the directory sync (under SpecTrigger)     *)
(***************************************************************************)
\* The executions of sync_users_from_emby in progress: that of
\* users_sync_loop and those of the tasks of requests.
SyncsRunning ==
    (IF sync.pc # "idle" THEN 1 ELSE 0)
    + Cardinality({t \in SyncTaskIds : sync_task[t].pc # "idle"})

\* C28: the directory resync is single-flight: at most one execution of it
\* is in progress at any time, a trigger while one is running starts no
\* second one.
C28_SingleFlightSync == SyncsRunning <= 1

(***************************************************************************)
(* Claims about the dedup cache and the ledger (checked under SpecPoll)    *)
(***************************************************************************)
\* The ledger rows of the partition of a cache key.
PartitionRows(key) ==
    {k \in DOMAIN play_event :
        play_event[k].uid = key[1] /\ play_event[k].iid = key[2]}

\* C30: after every tick, a failed ledger write or not, the cache entry of
\* each (userId, itemId) is the position of the most recent observation of
\* that partition persisted in the ledger during this run of the loop.
C30_CacheMatchesLedger ==
    pc = "sleep" =>
        \A key \in DOMAIN last_positions :
            LET rows == PartitionRows(key)
            IN  /\ rows # {}
                /\ play_event[CHOOSE k \in rows : \A j \in rows : j <= k].pos
                      = last_positions[key]

(***************************************************************************)
(* Claims about the order of delivery (checked under SpecOrder)            *)
(***************************************************************************)
Increasing(seq) == \A i, j \in DOMAIN seq : i < j => seq[i] < seq[j]

\* C31: a subscriber emits the broadcasts made while it was registered in
\* the order they were made and none twice: what it emits next is a later
\* broadcast than the one it emitted last, and every broadcast in between,
\* as every broadcast that is neither emitted nor waiting in its queue, was
\* made while its queue held QueueRoom snapshots.
C31_DeliveryOrder ==
    /\ [](\A q \in subscribers :
            LET h == pub_hist[1]
            IN  /\ Len(h.tags[q]) = Len(queue[q])
                /\ Increasing(h.tags[q])
                /\ \A k \in DOMAIN h.tags[q] :
                      h.last[q] < h.tags[q][k] /\ h.tags[q][k] <= h.n
                /\ \A b \in (h.last[q] + 1)..h.n :
                      \/ \E k \in DOMAIN h.tags[q] : h.tags[q][k] = b
                      \/ b \in h.full[q])
    /\ [][\A q \in QueueIds :
            Emits(q, "data") =>
                LET h == pub_hist[1]
                    e == pub_hist'[1].last[q]
                IN  /\ h.last[q] < e
                    /\ \E k \in DOMAIN h.tags[q] : h.tags[q][k] = e
                    /\ \A b \in (h.last[q] + 1)..(e - 1) : b \in h.full[q]
                    /\ \A k \in DOMAIN pub_hist'[1].tags[q] :
                          e < pub_hist'[1].tags[q][k]]_vars

\* Subscriber 1 has emitted the broadcasts up to the tenth; the eleventh was
\* made while its queue held ten, the twelfth is waiting in its queue.
C31_Witness ==
    /\ stream[1].pc = "yield" /\ stream[1].chunk = "data"
    /\ pub_hist[1].last[1] = 10
    /\ pub_hist[1].tags[1] = <<12>>
    /\ pub_hist[1].full[1] = {11}

(***************************************************************************)
(* Further claims about the poller (checked under SpecPoll)                *)
(***************************************************************************)
\* C32: within every (userId, itemId) partition insertion order is time
\* order: of two observations of one partition the one inserted later has a
\* timestamp greater than or equal to the other's.
C32_InsertionOrderIsTimeOrder ==
    \A i, j \in DOMAIN play_event :
        (/\ i < j
         /\ play_event[i].uid = play_event[j].uid
         /\ play_event[i].iid = play_event[j].iid)
        => play_event[i].ts <= play_event[j].ts

\* Three observations of one partition, the second in the second of the
\* first and the third a second later.
C32_Witness ==
    /\ Len(play_event) = 3
    /\ \A k \in 1..3 : play_event[k].uid = "u1" /\ play_event[k].iid = "i1"
    /\ play_event[1].ts = play_event[2].ts
    /\ play_event[2].ts < play_event[3].ts

\* positionTicks div 10000, 0 for a missing position.
TicksToMs(sess) ==
    IF sess.PositionTicks = NULL THEN 0 ELSE sess.PositionTicks[1] \div 10000

\* C33: a session with a user id and an item id is recorded with positionMs =
\* positionTicks div 10000, and with positionMs = 0 when its position is
\* missing or 0: the first session the poller sees of a partition, unless the
\* store raises, appends a row with that position.
C33_PositionConversion ==
    [][(/\ SessionStep
        /\ raw_sessions[idx].UserId # NULL
        /\ raw_sessions[idx].ItemId # NULL
        /\ LastKey(raw_sessions[idx]) \notin DOMAIN last_positions
        /\ ~StoreRaised)
       => /\ Len(play_event') = Len(play_event) + 1
          /\ play_event'[Len(play_event')].pos = TicksToMs(raw_sessions[idx])
          /\ play_event'[Len(play_event')].pos >= 0]_vars

\* C34: only active playback is recorded: for a session that is paused, has
\* no user id or has no now-playing item the poller appends no observation
\* and leaves the dedup cache as it is.
C34_OnlyActivePlayback ==
    [][(/\ SessionStep
        /\ \/ raw_sessions[idx].IsPaused
           \/ raw_sessions[idx].UserId = NULL
           \/ raw_sessions[idx].ItemId = NULL)
       => UNCHANGED <<play_event, last_positions>>]_vars

(***************************************************************************)
(* Claims about the pages of the refresh (SpecPagesFair, SpecPages)        *)
(***************************************************************************)
\* The worker w receives an empty page.
EmptyPage(w) ==
    /\ worker[w].pc = "get"
    /\ worker'[w] # worker[w]
    /\ PageItems(worker[w].page) = {}

\* C35: the refresh terminates: a started worker reaches running = false
\* with error = null, and this upon the first empty page: every page before
\* the one it stands at held items, and on an empty page it sets running =
\* false, leaves error null and requests no further page.
C35_RefreshTerminates ==
    /\ \A w \in ImportWorkers :
          worker[w].pc = "created" ~>
              (/\ worker[w].pc = "close"
               /\ ~refresh_state.running
               /\ refresh_state.error = NULL)
    /\ [](\A w \in ImportWorkers :
            worker[w].pc \in {"get", "store"} =>
                \A k \in 0..(worker[w].page - 1) : PageItems(k) # {})
    /\ [][\A w \in ImportWorkers :
            EmptyPage(w) => /\ worker'[w].pc = "close"
                            /\ ~refresh_state'.running
                            /\ refresh_state'.error = NULL]_vars

\* Against an upstream of exactly one full page the worker has stopped at
\* the second page, the first empty one.
C35_Witness ==
    /\ upstream = 200
    /\ worker[1].pc = "close" /\ worker[1].page = 1
    /\ ~refresh_state.running /\ refresh_state.error = NULL
    /\ refresh_state.page = 1

\* C36: pagination covers upstream exactly once: when a refresh ends without
\* error against an upstream of N items, every upstream item id is in the
\* catalog and the reported importedCount is N.
C36_PaginationCovers ==
    [][\A w \in ImportWorkers :
          EmptyPage(w) => /\ (1..upstream) \subseteq library_item'
                          /\ refresh_state'.imported = upstream]_vars

\* The same for a refresh that runs alone (under SpecImport): it does hold.
PaginationCovers_Alone ==
    [][FullRefreshCompletes =>
          /\ (1..upstream) \subseteq library_item'
          /\ refresh_state'.imported = upstream]_vars

(***************************************************************************)
(* Claims about the window's first observations (checked under SpecRecon)  *)
(***************************************************************************)
\* The observations of the partition (u, i) inside the window of the answer.
WindowRows(u, i) ==
    {k \in DOMAIN play_event :
        /\ play_event[k].uid = u /\ play_event[k].iid = i
        /\ play_event[k].ts >= resp.cutoff[1]}

\* C37: the first observation of a partition inside the window contributes
\* zero: stats_usage and top_users credit a partition with n observations in
\* the window at most n - 1 deltas, none when n < 2, and no query credits a
\* pair whose previous observation lies before the cutoff.
C37_FirstInWindowIsZero ==
    resp.op \in {"top_users", "top_items", "stats_usage"} =>
        /\ \A x \in resp.d : x.pts >= resp.cutoff[1] /\ x.ts >= resp.cutoff[1]
        /\ PerPartitionOp =>
              \A u \in Users, i \in Items :
                 LET n  == Cardinality(WindowRows(u, i))
                     dx == {x \in resp.d : x.uid = u /\ x.iid = i}
                 IN  /\ n < 2 => dx = {}
                     /\ n >= 2 => Cardinality(dx) <= n - 1
                     /\ \A x \in dx : x.puid = u

\* A partition with one observation before the cutoff and two after it: the
\* one pair inside the window is credited, the straddling one is not.
C37_Witness ==
    /\ resp.op = "top_users"
    /\ resp.cutoff = Some(4)
    /\ play_event = <<[uid |-> "u1", iid |-> "i1", ts |-> 2, pos |-> 0],
                      [uid |-> "u1", iid |-> "i1", ts |-> 4, pos |-> 500],
                      [uid |-> "u1", iid |-> "i1", ts |-> 10, pos |-> 2000]>>
    /\ Cardinality(resp.d) = 1
    /\ resp.out = ("u1" :> 1500)

(***************************************************************************)
(* Claims about the active-users listing (checked under SpecActive)        *)
(***************************************************************************)
\* C38: the active-users listing has exactly limit entries for limit >= 0:
\* first the users of LifetimeWatch with the greatest totals, by falling
\* totalMs, each with days * 1440 + hours * 60 + minutes = totalMs div 60000,
\* 0 <= hours < 24 and 0 <= minutes < 60, then zero-filled "Unknown"
\* placeholders; an empty LifetimeWatch gives limit placeholders.
C38_ActiveUsersListing ==
    resp.op = "active_users" =>
        LET limit == resp.d.limit
            rows  == resp.d.rows
            out   == resp.out
            real  == Min2(limit, Cardinality(DOMAIN lifetime_watch))
        IN  /\ Len(out) = limit
            /\ Len(rows) = real
            /\ \A k \in 1..real :
                  /\ rows[k].user_id \in DOMAIN lifetime_watch
                  /\ rows[k].total_ms = lifetime_watch[rows[k].user_id]
                  /\ \A j \in 1..real : j # k => rows[j].user_id # rows[k].user_id
                  /\ \A j \in (k + 1)..real : rows[j].total_ms <= rows[k].total_ms
                  /\ \A u \in DOMAIN lifetime_watch \ {rows[j].user_id : j \in 1..real} :
                        lifetime_watch[u] <= rows[k].total_ms
                  /\ out[k].days * 1440 + out[k].hours * 60 + out[k].minutes
                        = rows[k].total_ms \div 60000
                  /\ out[k].days >= 0
                  /\ 0 <= out[k].hours /\ out[k].hours < 24
                  /\ 0 <= out[k].minutes /\ out[k].minutes < 60
            /\ \A k \in (real + 1)..limit :
                  out[k] = [user |-> "Unknown", days |-> 0, hours |-> 0,
                            minutes |-> 0]

\* A listing of three: the user of a day, an hour and a minute, the user of
\* a day less a millisecond, and one placeholder.
C38_Witness ==
    /\ resp.op = "active_users"
    /\ resp.d.limit = 3
    /\ Len(resp.out) = 3
    /\ resp.out[1] = [user |-> "Ann", days |-> 1, hours |-> 1, minutes |-> 1]
    /\ resp.out[2] = [user |-> "u2", days |-> 0, hours |-> 23, minutes |-> 59]
    /\ resp.out[3].user = "Unknown" /\ resp.out[3].minutes = 0

=============================================================================
